---- MODULE Spec2Model ----
(***************************************************************************)
(* Brain Box: the ingestion-to-publish pipeline (app/telegram/handlers.py), *)
(* its persistence (app/database/repository.py) and the GitHub publisher    *)
(* (app/agents/github_publisher.py).                                        *)
(*                                                                          *)
(* Spec     the pipeline: the updates are handled one after the other (the  *)
(*          application is built without concurrent_updates), one step per  *)
(*          awaited call, over the database and the remote store.           *)
(* SpecPub  the publisher: concurrent publisher operations over the remote  *)
(*          store, one step per remote call.                                *)
(* SpecLive Spec, every awaited call returning or raising.                  *)
(* SpecRuns two handler runs interleaved at their database and remote      *)
(*          steps, with the other repository operations in between.        *)
(* SpecAnalyze  analyze_content over the texts and the outcomes of its AI  *)
(*          call.                                                           *)
(* SpecRestructure  restructure_for_github over its arguments and the      *)
(*          outcomes of its AI call.                                        *)
(* SpecDecide  _make_and_persist_decision on its own, over the outcomes of  *)
(*          the AI call.                                                    *)
(* SpecEntry  detect_content_type and _has_publish_trigger over file names, *)
(*          MIME types and texts.                                           *)
(* SpecPublish  /publish commands alone, over a database that holds earlier *)
(*          ingestions.                                                     *)
(***************************************************************************)
EXTENDS Naturals, Sequences, FiniteSets, TLC

\* ------------------------------------------------------------------ bounds
\* Number of inbound updates the pipeline specification handles.
MaxUpdates == 2
\* Number of publisher operations of the publisher specification.
NumPubs == 2
\* Number of concurrent handler runs of the concurrent-runs specification.
NumRuns == 2

Pubs == 1..NumPubs

VARIABLES
  run,        \* the handler run in progress: its locals, position and event log
  items,      \* table content_items, in id order (id = index)
  decisions,  \* table decisions, in id order
  files,      \* the remote repository: path -> content of the file at that path
  pub,        \* pub[p]: the locals and position of publisher operation p
  runs        \* runs[r]: the locals and position of concurrent handler run r

vars == <<run, items, decisions, files, pub, runs>>

\* ------------------------------------------------------- remote repository
\* A path is a sequence of names; a directory exists when a file lies below it.
GITKEEP == ".gitkeep"
NoUrl == <<"null", <<>>>>

IsFile(fs, p) == p \in DOMAIN fs
IsDir(fs, d) ==
  \E f \in DOMAIN fs : Len(f) > Len(d) /\ SubSeq(f, 1, Len(d)) = d
PathExists(fs, p) == IsFile(fs, p) \/ IsDir(fs, p)

\* A content is a pair <<what, whose>>; a placeholder file is empty.
EmptyContent == <<"", 0>>

\* The blob revision marker of a file: determined by its content.
ShaOf(content) == <<"sha", content>>
NoSha == <<"none", EmptyContent>>

\* html_url of the object written at path p.
HtmlUrl(p) == <<"url", p>>

WriteFile(fs, p, content) ==
  [q \in DOMAIN fs \cup {p} |-> IF q = p THEN content ELSE fs[q]]

EmptyFiles == [q \in {} |-> EmptyContent]

\* The remote calls. A read of an absent path reports 404; an update whose
\* revision marker is not the file's current one is refused (409); a create
\* of a path that holds a file is refused (422: no revision marker supplied).
get_contents(fs, p) ==
  IF IsFile(fs, p) THEN [status |-> 200, kind |-> "file", sha |-> ShaOf(fs[p])]
  ELSE IF IsDir(fs, p) THEN [status |-> 200, kind |-> "dir", sha |-> NoSha]
  ELSE [status |-> 404, kind |-> "none", sha |-> NoSha]

update_file(fs, p, content, sha) ==
  IF ~IsFile(fs, p) THEN [status |-> 404, files |-> fs]
  ELSE IF sha # ShaOf(fs[p]) THEN [status |-> 409, files |-> fs]
  ELSE [status |-> 200, files |-> WriteFile(fs, p, content)]

create_file(fs, p, content) ==
  IF IsFile(fs, p) THEN [status |-> 422, files |-> fs]
  ELSE [status |-> 201, files |-> WriteFile(fs, p, content)]

\* The round, mutated: the placeholder is created when the probe finds the folder.
ensure_folder_when_found(fs, d) ==
  IF get_contents(fs, d).status = 404
    THEN fs
    ELSE create_file(fs, Append(d, GITKEEP), EmptyContent).files

\* One round of the folder loops: probe the folder, create its placeholder on 404.
ensure_folder(fs, d) ==
  IF get_contents(fs, d).status = 404
    THEN create_file(fs, Append(d, GITKEEP), EmptyContent).files
    ELSE fs

\* _ensure_parent_folders run alone through its first k rounds.
RECURSIVE ensure_parent_folders(_, _, _)
ensure_parent_folders(fs, folder_path, k) ==
  IF k = 0 THEN fs
  ELSE ensure_folder(ensure_parent_folders(fs, folder_path, k - 1),
                     SubSeq(folder_path, 1, k))

\* ensure_repo_folders run alone through its first k rounds.
RECURSIVE ensure_repo_folders(_, _, _)
ensure_repo_folders(fs, folders, k) ==
  IF k = 0 THEN fs
  ELSE ensure_folder(ensure_repo_folders(fs, folders, k - 1), <<folders[k]>>)

\* publish_text_content / publish_binary_content run alone, every call succeeding.
publish_content(fs, folder_path, filename, content) ==
  LET file_path == Append(folder_path, filename)
      existing == get_contents(fs, file_path)
  IN IF existing.status = 200
       THEN update_file(fs, file_path, content, existing.sha).files
       ELSE create_file(ensure_parent_folders(fs, folder_path, Len(folder_path)),
                        file_path, content).files

\* The repositories a publish run alone can leave behind when one of its
\* remote calls raises: nothing written, or some of the parents' placeholders.
publish_content_raises(fs, folder_path, filename) ==
  IF get_contents(fs, Append(folder_path, filename)).status = 200
    THEN {fs}
    ELSE {ensure_parent_folders(fs, folder_path, k) : k \in 0..Len(folder_path)}

\* ----------------------------------------------------------------- settings
CONTENT_TYPES == {"images", "documents", "links", "notes"}
GITHUB_CONTENT_TYPES == <<"pictures", "documents", "audios", "links", "notes">>

CONTENT_TYPE_TO_GITHUB_FOLDER(content_type) ==
  CASE content_type = "images" -> "pictures"
    [] content_type = "documents" -> "documents"
    [] content_type = "links" -> "links"
    [] OTHER -> "notes"

\* ----------------------------------------------------------------- database
\* One write transaction per call, auto-committed; ids are autoincremented.
save_content_item(tbl, content_type, original_name, message_id, tags, summary, topic, created_at) ==
  Append(tbl, [id |-> Len(tbl) + 1,
               content_type |-> content_type,
               original_name |-> original_name,
               telegram_message_id |-> message_id,
               tags |-> tags,
               summary |-> summary,
               topic |-> topic,
               github_published |-> FALSE,
               github_url |-> NoUrl,
               created_at |-> created_at])

\* An argument left at its default None.
NONE == "<none>"

\* Mutant: the update of the AI fields resets the publish status.
update_content_ai_fields_unpublishing(tbl, item_id, tags, summary, topic) ==
  IF item_id \notin DOMAIN tbl
    THEN tbl
    ELSE [tbl EXCEPT ![item_id].tags = IF tags # NONE THEN tags ELSE @,
                     ![item_id].github_published = FALSE,
                     ![item_id].github_url = NoUrl]

update_content_ai_fields(tbl, item_id, tags, summary, topic) ==
  IF item_id \notin DOMAIN tbl
    THEN tbl
    ELSE [tbl EXCEPT ![item_id].tags = IF tags # NONE THEN tags ELSE @,
                     ![item_id].summary = IF summary # NONE THEN summary ELSE @,
                     ![item_id].topic = IF topic # NONE THEN topic ELSE @]

\* Mutant: the status update has no WHERE clause on the id.
update_github_status_every_row(tbl, item_id, github_url) ==
  [i \in DOMAIN tbl |-> [tbl[i] EXCEPT !.github_published = TRUE,
                                       !.github_url = github_url]]

\* Mutant: the status is set and the locator is left as it was.
update_github_status_flag_only(tbl, item_id, github_url) ==
  IF item_id \notin DOMAIN tbl
    THEN tbl
    ELSE [tbl EXCEPT ![item_id].github_published = TRUE]

update_github_status(tbl, item_id, github_url) ==
  IF item_id \notin DOMAIN tbl
    THEN tbl
    ELSE [tbl EXCEPT ![item_id].github_published = TRUE,
                     ![item_id].github_url = github_url]

\* Mutant: the query has no ORDER BY.
get_latest_unpublished_unordered(tbl) ==
  {i \in DOMAIN tbl : ~tbl[i].github_published}

\* The unpublished rows that ORDER BY created_at DESC may return first:
\* created_at has one-second resolution and ties are in no defined order.
get_latest_unpublished(tbl) ==
  LET unpub == {i \in DOMAIN tbl : ~tbl[i].github_published}
  IN {i \in unpub : \A j \in unpub : tbl[j].created_at <= tbl[i].created_at}

\* Mutant: the table keeps the newest decision of an item in place of the last.
save_decision_replacing(tbl, recommendation, rationale, confidence, item_id, message_id) ==
  <<[id |-> 1,
     decision_name |-> "github_publish_decision",
     recommendation |-> recommendation,
     rationale |-> rationale,
     confidence |-> confidence,
     content_item_id |-> item_id,
     telegram_message_id |-> message_id]>>

save_decision(tbl, recommendation, rationale, confidence, item_id, message_id) ==
  Append(tbl, [id |-> Len(tbl) + 1,
               decision_name |-> "github_publish_decision",
               recommendation |-> recommendation,
               rationale |-> rationale,
               confidence |-> confidence,
               content_item_id |-> item_id,
               telegram_message_id |-> message_id])

\* The clock value of the next row (server_default now(), in seconds): the
\* second of the last row, or a later one.
LastCreatedAt(tbl) == IF Len(tbl) = 0 THEN 0 ELSE tbl[Len(tbl)].created_at
NextCreatedAt(tbl) ==
  IF Len(tbl) = 0 THEN {0} ELSE {LastCreatedAt(tbl), LastCreatedAt(tbl) + 1}

\* ---------------------------------------------------------- decision engine
PUBLISH == "publish_to_github"
STORE == "store_locally_only"
RATIONALE_TRIGGER == "Explicit publish trigger detected. User requested GitHub publishing."
RATIONALE_SUITABLE == "Content appears suitable for public knowledge sharing via GitHub."
RATIONALE_NO_TRIGGER == "No publish trigger present. Content stored locally only."

\* A value of a JSON field the AI returned: text, or one of these shapes.
MISSING == "<missing>"
NOT_STR == "<not a string>"
BLANK == "   "

generate_default_rationale(recommendation, has_trigger) ==
  IF recommendation = PUBLISH
    THEN IF has_trigger THEN RATIONALE_TRIGGER ELSE RATIONALE_SUITABLE
    ELSE RATIONALE_NO_TRIGGER

\* The fallback, mutated: the trigger is ignored.
fallback_decision_store(has_trigger) ==
  [recommendation |-> STORE, rationale |-> RATIONALE_NO_TRIGGER,
   confidence |-> "high"]

\* The fallback, mutated: without a trigger the confidence is medium.
fallback_decision_medium(has_trigger) ==
  IF has_trigger
    THEN [recommendation |-> PUBLISH, rationale |-> RATIONALE_TRIGGER,
          confidence |-> "high"]
    ELSE [recommendation |-> STORE, rationale |-> RATIONALE_NO_TRIGGER,
          confidence |-> "medium"]

fallback_decision(has_trigger) ==
  IF has_trigger
    THEN [recommendation |-> PUBLISH, rationale |-> RATIONALE_TRIGGER,
          confidence |-> "high"]
    ELSE [recommendation |-> STORE, rationale |-> RATIONALE_NO_TRIGGER,
          confidence |-> "high"]

\* The validation, mutated: an invalid recommendation becomes store-locally.
validate_decision_store_invalid(result, has_trigger) ==
  LET recommendation ==
        IF result.recommendation \in {PUBLISH, STORE}
          THEN result.recommendation ELSE STORE
      rationale ==
        IF result.rationale \in {MISSING, NOT_STR, "", BLANK}
          THEN generate_default_rationale(recommendation, has_trigger)
          ELSE result.rationale
      confidence ==
        IF result.confidence \in {"high", "medium", "low"}
          THEN result.confidence
          ELSE IF has_trigger THEN "high" ELSE "medium"
  IN [recommendation |-> recommendation, rationale |-> rationale,
      confidence |-> confidence]

\* The validation, mutated: the confidence is taken as the AI gave it.
validate_decision_confidence_kept(result, has_trigger) ==
  LET recommendation ==
        IF result.recommendation \in {PUBLISH, STORE}
          THEN result.recommendation
          ELSE IF has_trigger THEN PUBLISH ELSE STORE
      rationale ==
        IF result.rationale \in {MISSING, NOT_STR, "", BLANK}
          THEN generate_default_rationale(recommendation, has_trigger)
          ELSE result.rationale
  IN [recommendation |-> recommendation, rationale |-> rationale,
      confidence |-> result.confidence]

validate_decision(result, has_trigger) ==
  LET recommendation ==
        IF result.recommendation \in {PUBLISH, STORE}
          THEN result.recommendation
          ELSE IF has_trigger THEN PUBLISH ELSE STORE
      rationale ==
        IF result.rationale \in {MISSING, NOT_STR, "", BLANK}
          THEN generate_default_rationale(recommendation, has_trigger)
          ELSE result.rationale
      confidence ==
        IF result.confidence \in {"high", "medium", "low"}
          THEN result.confidence
          ELSE IF has_trigger THEN "high" ELSE "medium"
  IN [recommendation |-> recommendation, rationale |-> rationale,
      confidence |-> confidence]

\* The decision, mutated: the trigger is looked at before the AI's answer.
make_publish_decision_trigger_first(ai, has_trigger) ==
  IF has_trigger \/ ai.kind # "object"
    THEN fallback_decision(has_trigger)
    ELSE validate_decision(ai, has_trigger)

\* The AI call fails, returns text that is no JSON, JSON that is no object
\* (result.get raises), or a JSON object.
make_publish_decision(ai, has_trigger) ==
  IF ai.kind = "object"
    THEN validate_decision(ai, has_trigger)
    ELSE fallback_decision(has_trigger)

AIObject(rec, rat, conf) ==
  [kind |-> "object", recommendation |-> rec, rationale |-> rat, confidence |-> conf]
AIFailure(kind) ==
  [kind |-> kind, recommendation |-> MISSING, rationale |-> MISSING,
   confidence |-> MISSING]

\* The AI outcomes the pipeline runs are given.
PipelineAI ==
  { AIFailure("error"), AIFailure("nonjson"),
    AIObject(PUBLISH, "ai rationale", "high"),
    AIObject(STORE, "ai rationale", "low"),
    AIObject("maybe", MISSING, "certain") }

\* ------------------------------------------------------------ the pipeline
\* The handlers: document_handler, photo_handler, text_handler (a link or a
\* note) and publish_handler (the /publish command).
Ingestion == {"document", "photo", "link", "note"}
Kinds == Ingestion \cup {"publish", "start", "help", "list", "search", "date"}

\* The users an update may come from: the allowed one, another one, or none
\* (update.effective_user is None).
TELEGRAM_ALLOWED_USER_ID == "allowed"
NO_USER == "none"

\* Mutant: every user is authorized.
_is_authorized_anyone(user_id) == TRUE

_is_authorized(user_id) == user_id = TELEGRAM_ALLOWED_USER_ID

\* detect_content_type of an uploaded document; the other handlers fix the type.
TypesOf(kind) ==
  CASE kind = "document" -> {"documents", "notes"}
    [] kind = "photo" -> {"images"}
    [] kind = "link" -> {"links"}
    [] OTHER -> {"notes"}

\* What the restructurer may suggest for the file's name.
FileNames == {"a.md"}
SubFolder == "general"
RawName == "raw.bin"

NoDecision == [recommendation |-> "none", rationale |-> "", confidence |-> "none"]

\* failed_item is history: the item the publish stage of the /publish run
\* before this one failed on, 0 when there is none.
IdleRun ==
  [pc |-> "idle", kind |-> "none", message_id |-> 0, content_type |-> "none",
   should_publish |-> FALSE, raw_bytes |-> FALSE, item_id |-> 0,
   ai |-> AIFailure("none"), decision |-> NoDecision, filename |-> "none",
   github_url |-> NoUrl, failed_item |-> 0, user |-> NO_USER, log |-> <<>>]

\* An event of a run's log: a call and how it ended, or a reply sent.
Called(op) == <<op, "ok">>
Raised(op) == <<op, "raise">>
Reply(text) == <<"reply", text>>

Goto(label, events) ==
  run' = [run EXCEPT !.pc = label, !.log = @ \o events]

\* The outer except clause, mutated: the failure is logged and no reply is sent.
HandlerErrorSilent(op) ==
  Goto("done", <<Raised(op)>>)

\* The handler's outer except clause: the generic processing-error reply.
HandlerError(op) ==
  Goto("done", <<Raised(op), Reply("error")>>)

\* An update arrives once the handler of the previous one has returned:
\* authorization, trigger detection, the first reply.
Receive ==
  /\ run.pc \in {"idle", "done"}
  /\ run.message_id < MaxUpdates
  /\ \E kind \in Kinds, trigger \in BOOLEAN,
        user \in {TELEGRAM_ALLOWED_USER_ID, "other", NO_USER} :
       LET authorized == user # NO_USER /\ _is_authorized(user)
           fresh == [IdleRun EXCEPT
                       !.kind = kind,
                       !.user = user,
                       !.message_id = run.message_id + 1,
                       !.failed_item =
                         IF /\ run.kind = "publish"
                            /\ \E k \in DOMAIN run.log :
                                 run.log[k] = Reply("publish_failed")
                           THEN run.item_id ELSE 0]
       IN IF ~authorized
            THEN /\ ~trigger
                 /\ run' = [fresh EXCEPT !.pc = "done",
                                         !.log = <<Reply("denied")>>]
            ELSE IF kind = "publish"
              THEN /\ ~trigger
                   /\ run' = [fresh EXCEPT !.pc = "get_latest_unpublished"]
            ELSE IF kind \notin Ingestion
              THEN \* a command: its reply, after a query when it makes one
                   /\ ~trigger
                   /\ \E queried \in BOOLEAN :
                        /\ queried => kind \in {"list", "search", "date"}
                        /\ run' = [fresh EXCEPT
                             !.pc = "done",
                             !.log = IF queried
                                       THEN <<Called("query"), Reply("results")>>
                                       ELSE <<Reply("usage")>>]
              ELSE \E t \in TypesOf(kind) :
                     run' = [fresh EXCEPT
                       !.pc = IF kind \in {"document", "photo"}
                                THEN "download" ELSE "save_file",
                       !.content_type = t,
                       !.should_publish = trigger,
                       !.log = <<Reply("received")>>]
  /\ UNCHANGED <<items, decisions, files, pub, runs>>

\* Step 1: get_file / download_as_bytearray.
Download ==
  /\ run.pc = "download"
  /\ \/ run' = [run EXCEPT !.pc = "save_file", !.raw_bytes = TRUE,
                           !.log = Append(@, Called("download"))]
     \/ HandlerError("download")
  /\ UNCHANGED <<items, decisions, files, pub, runs>>

\* Step 2: save_file / save_text_content.
SaveFile ==
  /\ run.pc = "save_file"
  /\ \/ Goto(IF run.kind \in {"document", "link"}
               THEN "extract_text" ELSE "analyze_content",
             <<Called("save_file")>>)
     \/ HandlerError("save_file")
  /\ UNCHANGED <<items, decisions, files, pub, runs>>

\* Step 3: extract_text (documents and links). A document's extraction runs
\* under except Exception and returns "" when it fails; extract_text_from_url
\* catches httpx.HTTPError around the fetch alone, so what the fetch raises
\* otherwise (httpx.InvalidURL is no HTTPError) and what the parsing of the
\* answer raises leave extract_text and reach the handler's except clause.
ExtractText ==
  /\ run.pc = "extract_text"
  /\ \/ Goto("analyze_content", <<Called("extract_text")>>)
     \/ /\ run.kind = "link"
        /\ HandlerError("extract_text")
  /\ UNCHANGED <<items, decisions, files, pub, runs>>

\* Step 4: analyze_content (a photo without caption skips the call).
AnalyzeContent ==
  /\ run.pc = "analyze_content"
  /\ \/ Goto("save_content_item", <<Called("analyze_content")>>)
     \/ /\ run.kind = "photo"
        /\ ~run.should_publish
        /\ Goto("save_content_item", <<>>)
  /\ UNCHANGED <<items, decisions, files, pub, runs>>

\* ai_result as the handler holds it after step 4: what analyze_content
\* returned, or the photo handler's own default when there is no caption.
AnalyzeResult(content_type) ==
  [tags |-> content_type, summary |-> "summary", topic |-> "general"]
NoCaptionResult ==
  [tags |-> "image", summary |-> "Image received without caption.",
   topic |-> "general"]
AiResult ==
  IF \E i \in DOMAIN run.log : run.log[i] = Called("analyze_content")
    THEN AnalyzeResult(run.content_type)
    ELSE NoCaptionResult

\* Mutant: the handler goes on to the decision with the item not committed.
SaveContentItemNotCommitted ==
  /\ run.pc = "save_content_item"
  /\ run' = [run EXCEPT !.pc = "make_publish_decision",
                        !.item_id = Len(items) + 1,
                        !.log = Append(@, Called("save_content_item"))]
  /\ UNCHANGED <<items, decisions, files, pub, runs>>

\* Step 5: db.save_content_item.
SaveContentItem ==
  /\ run.pc = "save_content_item"
  /\ \/ /\ \E at \in NextCreatedAt(items) :
             items' = save_content_item(items, run.content_type, RawName,
                                        run.message_id, AiResult.tags,
                                        AiResult.summary, AiResult.topic, at)
        /\ run' = [run EXCEPT !.pc = "make_publish_decision",
                              !.item_id = Len(items) + 1,
                              !.log = Append(@, Called("save_content_item"))]
     \/ /\ HandlerError("save_content_item")
        /\ UNCHANGED items
  /\ UNCHANGED <<decisions, files, pub, runs>>

\* _make_and_persist_decision, first half: make_publish_decision.
MakePublishDecision ==
  /\ run.pc = "make_publish_decision"
  /\ \E ai \in PipelineAI :
       run' = [run EXCEPT
         !.pc = "save_decision",
         !.ai = ai,
         !.decision = make_publish_decision(ai, run.should_publish),
         !.log = Append(@, Called("make_publish_decision"))]
  /\ UNCHANGED <<items, decisions, files, pub, runs>>

\* Mutant: the trigger, not the decision, opens the publish stage.
ShouldEnterPublishOnTrigger(decision) == run.should_publish

\* Step 6: the handler enters the publish stage when the decision says so.
ShouldEnterPublish(decision) == decision.recommendation = PUBLISH

\* The end of a handler after its publish stage, or without one.
Respond ==
  IF run.kind = "publish" THEN <<>> ELSE <<Reply("saved")>>

\* _make_and_persist_decision, second half: db.save_decision; then the branch.
SaveDecision ==
  /\ run.pc = "save_decision"
  /\ \/ /\ decisions' = save_decision(decisions, run.decision.recommendation,
                                      run.decision.rationale,
                                      run.decision.confidence,
                                      run.item_id, run.message_id)
        /\ IF ShouldEnterPublish(run.decision)
             THEN Goto("restructure_for_github",
                       <<Called("save_decision"), Reply("publishing")>>)
             ELSE Goto("done", <<Called("save_decision")>> \o Respond)
     \/ /\ HandlerError("save_decision")
        /\ UNCHANGED decisions
  /\ UNCHANGED <<items, files, pub, runs>>

\* publish_handler: the newest unpublished item, its stored file, then the
\* publish stage with no decision made.
GetLatestUnpublished ==
  /\ run.pc = "get_latest_unpublished"
  /\ IF get_latest_unpublished(items) = {}
       THEN Goto("done", <<Called("get_latest_unpublished"),
                           Reply("none_unpublished")>>)
       ELSE \E i \in get_latest_unpublished(items), file_exists \in BOOLEAN :
              run' = [run EXCEPT
                !.pc = "restructure_for_github",
                !.content_type = items[i].content_type,
                !.raw_bytes = file_exists,
                !.item_id = i,
                !.log = <<Called("get_latest_unpublished"), Reply("publishing")>>]
  /\ UNCHANGED <<items, decisions, files, pub, runs>>

\* Mutant: the publish stage's except clause never hands control back.
PublishFailedHangs(op) == Goto("hung", <<Raised(op)>>)

\* Mutant: the publish stage has no except clause of its own.
PublishFailedPropagates(op) == HandlerError(op)

\* _publish_to_github's except clause: the publish-failed reply, and the
\* handler goes on.
PublishFailed(op) ==
  Goto("done", <<Raised(op), Reply("publish_failed")>> \o Respond)

FolderPath ==
  <<CONTENT_TYPE_TO_GITHUB_FOLDER(run.content_type), SubFolder>>
Markdown == <<"markdown", run.item_id>>
RawFile == <<"raw", run.item_id>>

RestructureForGithub ==
  /\ run.pc = "restructure_for_github"
  /\ \/ \E f \in FileNames :
          run' = [run EXCEPT !.pc = "ensure_repo_folders", !.filename = f,
                             !.log = Append(@, Called("restructure_for_github"))]
     \/ PublishFailed("restructure_for_github")
  /\ UNCHANGED <<items, decisions, files, pub, runs>>

EnsureRepoFolders ==
  /\ run.pc = "ensure_repo_folders"
  /\ \/ /\ files' = ensure_repo_folders(files, GITHUB_CONTENT_TYPES,
                                         Len(GITHUB_CONTENT_TYPES))
        /\ Goto("publish_text_content", <<Called("ensure_repo_folders")>>)
     \/ /\ \E k \in 0..(Len(GITHUB_CONTENT_TYPES) - 1) :
             files' = ensure_repo_folders(files, GITHUB_CONTENT_TYPES, k)
        /\ PublishFailed("ensure_repo_folders")
  /\ UNCHANGED <<items, decisions, pub, runs>>

\* Mutant: the raw file is never published.
HasNoRawFile == FALSE

\* The raw file is published too for images and documents that have bytes.
HasRawFile ==
  run.raw_bytes /\ run.content_type \in {"images", "documents"}

PublishTextContent ==
  /\ run.pc = "publish_text_content"
  /\ \/ /\ files' = publish_content(files, FolderPath, run.filename, Markdown)
        /\ run' = [run EXCEPT
             !.pc = IF HasRawFile THEN "publish_binary_content"
                                  ELSE "update_github_status",
             !.github_url = HtmlUrl(Append(FolderPath, run.filename)),
             !.log = Append(@, Called("publish_text_content"))]
     \/ /\ files' \in publish_content_raises(files, FolderPath, run.filename)
        /\ PublishFailed("publish_text_content")
  /\ UNCHANGED <<items, decisions, pub, runs>>

PublishBinaryContent ==
  /\ run.pc = "publish_binary_content"
  /\ \/ /\ files' = publish_content(files, FolderPath, RawName, RawFile)
        /\ Goto("update_github_status", <<Called("publish_binary_content")>>)
     \/ /\ files' \in publish_content_raises(files, FolderPath, RawName)
        /\ PublishFailed("publish_binary_content")
  /\ UNCHANGED <<items, decisions, pub, runs>>

UpdateGithubStatus ==
  /\ run.pc = "update_github_status"
  /\ \/ /\ items' = update_github_status(items, run.item_id, run.github_url)
        /\ Goto("done", <<Called("update_github_status"), Reply("published")>>
                        \o Respond)
     \/ /\ PublishFailed("update_github_status")
        /\ UNCHANGED items
  /\ UNCHANGED <<decisions, files, pub, runs>>

\* ------------------------------------------------------------ the publisher
\* A publisher operation: publish_text_content ("text"), publish_binary_content
\* ("binary") or ensure_repo_folders ("ensure"), one step per remote call.
\* calls is the log of the operation's remote calls; after is the set of
\* publishes that had returned when the operation made its first call, and
\* writes_seen the set of operations that had already sent a write of the
\* target when this one sent its own; injected tells that the store failed a
\* call for a reason of its own (an outage, a refused token).
Publishes == {"text", "binary"}

\* Any failure of the remote store that is not a 404.
OTHER_FAILURE == 500

IdlePub ==
  [pc |-> "idle", op |-> "none", folder_path |-> <<>>, filename |-> "none",
   content |-> EmptyContent, sha |-> NoSha, sent |-> NoSha, i |-> 0,
   exc |-> 0, result |-> NoUrl, calls |-> <<>>, after |-> {},
   writes_seen |-> {}, injected |-> FALSE]

FilePath(p) == Append(pub[p].folder_path, pub[p].filename)

\* base64.b64encode(data).decode("ascii")
B64Encode(data) == <<"b64", data[2]>>

\* The line of a call in the operation's log: the call, its path, its status.
Call(name, path, status) == <<name, path, status>>

\* The except clauses, mutated: every GithubException is the not-found case.
IsNotFoundAny(status) == TRUE

\* The except clauses: a GithubException is the not-found case when its
\* status is 404, and is raised again otherwise.
IsNotFound(status) == status = 404

\* The statuses that end a call with no exception.
Succeeded(status) == status \in {200, 201}

\* What a read may answer: what the store holds, or a failure of the store.
ReadAnswers(fs, path) ==
  {get_contents(fs, path),
   [status |-> OTHER_FAILURE, kind |-> "none", sha |-> NoSha]}

\* What a write may answer: its outcome on the store, or a failure of the
\* store (for an update, a 404 as well), the store left as it was.
WriteAnswers(fs, outcome, failures) ==
  {outcome} \cup {[status |-> st, files |-> fs] : st \in failures}

\* The operation ends with the exception of the call that failed.
Raise(p, call, injected) ==
  pub' = [pub EXCEPT ![p].pc = "raised", ![p].exc = call[3],
                     ![p].calls = Append(@, call),
                     ![p].injected = @ \/ injected]

\* The parents, mutated: probed from the leaf to the root.
ParentDirsLeafFirst(folder_path) ==
  [i \in 1..Len(folder_path) |->
     SubSeq(folder_path, 1, Len(folder_path) + 1 - i)]

\* The parents _ensure_parent_folders probes, in its order: "/".join(parts[:i]).
ParentDirs(folder_path) ==
  [i \in 1..Len(folder_path) |-> SubSeq(folder_path, 1, i)]

\* The folders ensure_repo_folders probes, in its order.
RepoDirs == [k \in 1..Len(GITHUB_CONTENT_TYPES) |-> <<GITHUB_CONTENT_TYPES[k]>>]

\* The folder loop the operation is in: the parents, or the repo's folders.
Dirs(p) ==
  IF pub[p].op = "ensure" THEN RepoDirs ELSE ParentDirs(pub[p].folder_path)

\* Where the operation goes after round i of its folder loop.
AfterRound(p, i) ==
  IF i < Len(Dirs(p)) THEN [pc |-> "probe", i |-> i + 1]
  ELSE IF pub[p].op = "ensure" THEN [pc |-> "returned", i |-> i]
  ELSE [pc |-> "create_file", i |-> i]

\* The except branch of the publish: _ensure_parent_folders, then create_file.
EnterNotFound(p) ==
  IF Len(pub[p].folder_path) = 0 THEN [pc |-> "create_file", i |-> 0]
  ELSE [pc |-> "probe", i |-> 1]

\* The try block, mutated: a read that found the file goes on to create it.
AfterReadCreates(p) == EnterNotFound(p)

\* The try block: a read that found the file goes on to update_file.
AfterRead(p) == [pc |-> "update_file", i |-> 0]

\* The update, mutated: sent with the revision the store holds at the write.
UpdateShaFresh(p) == get_contents(files, FilePath(p)).sha

\* The revision marker the update is sent with: existing.sha.
UpdateSha(p) == pub[p].sha

\* The publishes that have returned, and the operations that have sent a
\* write of the target.
ReturnedPubs == {q \in Pubs : pub[q].op \in Publishes /\ pub[q].pc = "returned"}
WritersSoFar ==
  {q \in Pubs : \E k \in 1..Len(pub[q].calls) :
     /\ pub[q].calls[k][1] \in {"update_file", "create_file"}
     /\ pub[q].calls[k][2] = FilePath(q)}

\* existing = repo.get_contents(file_path)
GetContents(p) ==
  /\ pub[p].pc = "get_contents"
  /\ \E existing \in ReadAnswers(files, FilePath(p)) :
       LET call == Call("get_contents", FilePath(p), existing.status)
           injected == existing # get_contents(files, FilePath(p))
           started == [pub EXCEPT ![p].after = ReturnedPubs]
       IN IF Succeeded(existing.status)
            THEN IF existing.kind = "dir"
              THEN \* a listing has no sha: AttributeError
                   pub' = [started EXCEPT ![p].pc = "raised",
                                          ![p].calls = Append(@, call)]
              ELSE pub' = [started EXCEPT ![p].pc = AfterRead(p).pc,
                                          ![p].i = AfterRead(p).i,
                                          ![p].sha = existing.sha,
                                          ![p].calls = Append(@, call)]
            ELSE IF IsNotFound(existing.status)
              THEN pub' = [started EXCEPT ![p].pc = EnterNotFound(p).pc,
                                          ![p].i = EnterNotFound(p).i,
                                          ![p].injected = @ \/ injected,
                                          ![p].calls = Append(@, call)]
              ELSE pub' = [started EXCEPT ![p].pc = "raised",
                                          ![p].exc = existing.status,
                                          ![p].injected = @ \/ injected,
                                          ![p].calls = Append(@, call)]
  /\ UNCHANGED <<run, items, decisions, files, runs>>

\* result = repo.update_file(path, message, content, sha=existing.sha)
UpdateFile(p) ==
  /\ pub[p].pc = "update_file"
  /\ LET outcome == update_file(files, FilePath(p), pub[p].content,
                                UpdateSha(p))
         sending == [pub EXCEPT ![p].sent = UpdateSha(p),
                                ![p].writes_seen = WritersSoFar \ {p}]
     IN \E r \in WriteAnswers(files, outcome, {OTHER_FAILURE, 404}) :
          LET call == Call("update_file", FilePath(p), r.status)
              injected == r # outcome
          IN /\ files' = r.files
             /\ IF Succeeded(r.status)
                  THEN pub' = [sending EXCEPT
                                 ![p].pc = "returned",
                                 ![p].result = HtmlUrl(FilePath(p)),
                                 ![p].calls = Append(@, call)]
                  ELSE IF IsNotFound(r.status)
                    THEN pub' = [sending EXCEPT
                                   ![p].pc = EnterNotFound(p).pc,
                                   ![p].i = EnterNotFound(p).i,
                                   ![p].injected = @ \/ injected,
                                   ![p].calls = Append(@, call)]
                    ELSE pub' = [sending EXCEPT
                                   ![p].pc = "raised",
                                   ![p].exc = r.status,
                                   ![p].injected = @ \/ injected,
                                   ![p].calls = Append(@, call)]
  /\ UNCHANGED <<run, items, decisions, runs>>

\* repo.get_contents(partial) / repo.get_contents(folder)
Probe(p) ==
  /\ pub[p].pc = "probe"
  /\ LET d == Dirs(p)[pub[p].i] IN
     \E existing \in ReadAnswers(files, d) :
       LET call == Call("get_contents", d, existing.status)
           injected == existing # get_contents(files, d)
       IN IF Succeeded(existing.status)
            THEN pub' = [pub EXCEPT ![p].pc = AfterRound(p, pub[p].i).pc,
                                    ![p].i = AfterRound(p, pub[p].i).i,
                                    ![p].calls = Append(@, call)]
            ELSE IF IsNotFound(existing.status)
              THEN pub' = [pub EXCEPT ![p].pc = "create_gitkeep",
                                      ![p].injected = @ \/ injected,
                                      ![p].calls = Append(@, call)]
              ELSE Raise(p, call, injected)
  /\ UNCHANGED <<run, items, decisions, files, runs>>

\* repo.create_file(path=f"{partial}/.gitkeep", content="")
CreateGitkeep(p) ==
  /\ pub[p].pc = "create_gitkeep"
  /\ LET path == Append(Dirs(p)[pub[p].i], GITKEEP)
         outcome == create_file(files, path, EmptyContent)
     IN \E r \in WriteAnswers(files, outcome, {OTHER_FAILURE}) :
          LET call == Call("create_file", path, r.status) IN
          /\ files' = r.files
          /\ IF Succeeded(r.status)
               THEN pub' = [pub EXCEPT ![p].pc = AfterRound(p, pub[p].i).pc,
                                       ![p].i = AfterRound(p, pub[p].i).i,
                                       ![p].calls = Append(@, call)]
               ELSE Raise(p, call, r # outcome)
  /\ UNCHANGED <<run, items, decisions, runs>>

\* result = repo.create_file(path=file_path, message, content)
CreateFile(p) ==
  /\ pub[p].pc = "create_file"
  /\ LET outcome == create_file(files, FilePath(p), pub[p].content)
         sending == [pub EXCEPT ![p].writes_seen = @ \cup (WritersSoFar \ {p})]
     IN \E r \in WriteAnswers(files, outcome, {OTHER_FAILURE}) :
          LET call == Call("create_file", FilePath(p), r.status) IN
          /\ files' = r.files
          /\ IF Succeeded(r.status)
               THEN pub' = [sending EXCEPT
                              ![p].pc = "returned",
                              ![p].result = HtmlUrl(FilePath(p)),
                              ![p].calls = Append(@, call)]
               ELSE pub' = [sending EXCEPT
                              ![p].pc = "raised",
                              ![p].exc = r.status,
                              ![p].injected = @ \/ (r # outcome),
                              ![p].calls = Append(@, call)]
  /\ UNCHANGED <<run, items, decisions, runs>>

\* The operations the publisher specification starts with, and its repository.
PubFolders == {<<"notes", "general">>}
PubFileNames == {"a.md"}
OldContent == <<"old", 0>>

PubInput(p, op) ==
  IF op = "ensure"
    THEN [IdlePub EXCEPT !.pc = "probe", !.op = op, !.i = 1]
    ELSE [IdlePub EXCEPT
            !.pc = "get_contents", !.op = op,
            !.folder_path = CHOOSE f \in PubFolders : TRUE,
            !.filename = CHOOSE f \in PubFileNames : TRUE,
            !.content = IF op = "text" THEN <<"text", p>>
                                       ELSE B64Encode(<<"data", p>>)]

InitialRepos ==
  LET folders == ensure_repo_folders(EmptyFiles, GITHUB_CONTENT_TYPES,
                                     Len(GITHUB_CONTENT_TYPES))
  IN { EmptyFiles,
       folders,
       WriteFile(folders, <<"notes", "general", "a.md">>, OldContent) }

\* ------------------------------------------ the decision engine on its own
\* _make_and_persist_decision over the outcomes the AI call can have: the call
\* fails, answers text that is no JSON, JSON that is no object, or an object
\* whose fields are text, missing or of another type.
DecideRecommendations == {PUBLISH, STORE, "maybe", MISSING, NOT_STR}
DecideRationales == {"ai rationale", MISSING, NOT_STR, "", BLANK}
DecideConfidences == {"high", "medium", "low", "certain", MISSING, NOT_STR}
DecideAI ==
  {AIFailure(k) : k \in {"error", "nonjson", "nonobject"}}
  \cup {AIObject(rec, rat, conf) : rec \in DecideRecommendations,
                                   rat \in DecideRationales,
                                   conf \in DecideConfidences}

\* decision = make_publish_decision(...)
MakeDecision ==
  /\ run.pc = "decide"
  /\ run' = [run EXCEPT
       !.pc = "persist",
       !.decision = make_publish_decision(run.ai, run.should_publish)]
  /\ UNCHANGED <<items, decisions, files, pub, runs>>

\* db.save_decision(...); return decision
PersistDecision ==
  /\ run.pc = "persist"
  /\ \/ /\ decisions' = save_decision(decisions, run.decision.recommendation,
                                      run.decision.rationale,
                                      run.decision.confidence,
                                      run.item_id, run.message_id)
        /\ run' = [run EXCEPT !.pc = "returned"]
     \/ /\ run' = [run EXCEPT !.pc = "raised"]
        /\ UNCHANGED decisions
  /\ UNCHANGED <<items, files, pub, runs>>

\* ------------------------------------------------ concurrent handler runs
\* Two handler runs for different inbound messages, interleaved at the awaited
\* calls that touch the shared state: each to_thread call of the repository
\* is one transaction of its own Session, and the remote part of
\* _publish_to_github is taken as one step. The locals of a run (db_item.id,
\* the decision, github_url) are runs[r]; the tables and the remote store are
\* shared. The repository functions no handler run calls on its way
\* (update_content_ai_fields, the queries of the commands) are steps of their
\* own that any caller may take in between.
Runs == 1..NumRuns
RunGoto(r, label) == runs' = [runs EXCEPT ![r].pc = label]

\* db_item = db.save_content_item(...): the id is the one the commit assigned.
RunSaveContentItem(r) ==
  /\ runs[r].pc = "save_content_item"
  /\ \/ /\ \E at \in NextCreatedAt(items) :
             LET ai_result == AnalyzeResult(runs[r].content_type)
             IN items' = save_content_item(items, runs[r].content_type, RawName,
                                           r, ai_result.tags, ai_result.summary,
                                           ai_result.topic, at)
        /\ runs' = [runs EXCEPT ![r].pc = "make_and_persist_decision",
                                ![r].item_id = Len(items) + 1]
     \/ /\ RunGoto(r, "done")
        /\ UNCHANGED items
  /\ UNCHANGED <<run, decisions, files, pub>>

\* Mutant: the decision is recorded for the newest item of the table.
RunDecisionItemNewest(r) == Len(items)

\* content_item_id=db_item.id: the id the run holds in its own local.
RunDecisionItem(r) == runs[r].item_id

\* _make_and_persist_decision(..., content_item_id=db_item.id, ...).
RunMakeAndPersistDecision(r) ==
  /\ runs[r].pc = "make_and_persist_decision"
  /\ \E ai \in PipelineAI :
       LET decision == make_publish_decision(ai, runs[r].should_publish)
       IN \/ /\ decisions' = save_decision(decisions, decision.recommendation,
                                           decision.rationale, decision.confidence,
                                           RunDecisionItem(r), r)
             /\ runs' = [runs EXCEPT
                  ![r].decision = decision,
                  ![r].pc = IF decision.recommendation = PUBLISH
                              THEN "publish_to_github" ELSE "done"]
          \/ /\ RunGoto(r, "done")
             /\ UNCHANGED decisions
  /\ UNCHANGED <<run, items, files, pub>>

RunFolderPath(r) ==
  <<CONTENT_TYPE_TO_GITHUB_FOLDER(runs[r].content_type), SubFolder>>

\* The remote store after the folders and the markdown of run r are written,
\* and after the raw file too.
RunTextPublished(r, filename) ==
  publish_content(ensure_repo_folders(files, GITHUB_CONTENT_TYPES,
                                      Len(GITHUB_CONTENT_TYPES)),
                  RunFolderPath(r), filename, <<"markdown", runs[r].item_id>>)
RunAllPublished(r, filename) ==
  IF runs[r].content_type \in {"images", "documents"}
    THEN publish_content(RunTextPublished(r, filename), RunFolderPath(r),
                         RawName, <<"raw", runs[r].item_id>>)
    ELSE RunTextPublished(r, filename)

\* _publish_to_github up to the status update: restructure, the folders, the
\* markdown, the raw file. Any of them raising ends the publish stage in its
\* except clause, with what was written before left in the store.
RunPublishToGithub(r) ==
  /\ runs[r].pc = "publish_to_github"
  /\ \E f \in FileNames :
       \/ /\ files' = RunAllPublished(r, f)
          /\ runs' = [runs EXCEPT
               ![r].pc = "update_github_status",
               ![r].github_url = HtmlUrl(Append(RunFolderPath(r), f))]
       \/ /\ files' \in {files,
                         ensure_repo_folders(files, GITHUB_CONTENT_TYPES,
                                             Len(GITHUB_CONTENT_TYPES)),
                         RunTextPublished(r, f)}
          /\ RunGoto(r, "done")
  /\ UNCHANGED <<run, items, decisions, pub>>

\* db.update_github_status(item_id, github_url), the last call of the stage.
RunUpdateGithubStatus(r) ==
  /\ runs[r].pc = "update_github_status"
  /\ \/ items' = update_github_status(items, runs[r].item_id, runs[r].github_url)
     \/ UNCHANGED items
  /\ RunGoto(r, "done")
  /\ UNCHANGED <<run, decisions, files, pub>>

\* db.update_content_ai_fields(item_id, tags, summary, topic), by any caller.
UpdateContentAiFields ==
  /\ \E item_id \in 1..(NumRuns + 1),
        ai_fields \in {<<"edited", NONE, NONE>>, <<NONE, "edited", "edited">>} :
       items' = update_content_ai_fields(items, item_id, ai_fields[1],
                                         ai_fields[2], ai_fields[3])
  /\ UNCHANGED <<run, decisions, files, pub, runs>>

\* The queries: list_by_content_type, search_by_keyword, filter_by_date,
\* get_content_item_by_id, get_latest_unpublished, get_decisions_by_content_item
\* and get_recent_decisions only select.
Query ==
  UNCHANGED vars

\* -------------------------------------------------------------------- text
\* A text is the sequence of its characters (str); the operators are the
\* string methods the agents use.
EM_DASH == "<U+2014>"
BACKTICK == "<U+0060>"
WHITESPACE == {" ", "\n"}
UPPER ==
  <<"A", "B", "C", "D", "E", "F", "G", "H", "I", "J", "K", "L", "M", "N", "O",
    "P", "Q", "R", "S", "T", "U", "V", "W", "X", "Y", "Z">>
LOWER ==
  <<"a", "b", "c", "d", "e", "f", "g", "h", "i", "j", "k", "l", "m", "n", "o",
    "p", "q", "r", "s", "t", "u", "v", "w", "x", "y", "z">>

\* s.lower()
lower(s) ==
  [k \in DOMAIN s |->
     IF \E u \in DOMAIN UPPER : UPPER[u] = s[k]
       THEN LOWER[CHOOSE u \in DOMAIN UPPER : UPPER[u] = s[k]]
       ELSE s[k]]

\* s.strip()
RECURSIVE lstrip(_)
lstrip(s) ==
  IF s # <<>> /\ Head(s) \in WHITESPACE THEN lstrip(Tail(s)) ELSE s
RECURSIVE rstrip(_)
rstrip(s) ==
  IF s # <<>> /\ s[Len(s)] \in WHITESPACE
    THEN rstrip(SubSeq(s, 1, Len(s) - 1)) ELSE s
strip(s) == rstrip(lstrip(s))

\* s[:n]
Take(s, n) == SubSeq(s, 1, IF Len(s) < n THEN Len(s) ELSE n)

\* c * n
Rep(c, n) == [k \in 1..n |-> c]

\* Mutant: only the empty text counts as no text.
IsEmptyText(text) == text = <<>>

\* not text or not text.strip()
IsBlank(text) == text = <<>> \/ strip(text) = <<>>

\* The category as text.
TypeText(content_type) ==
  CASE content_type = "images" -> <<"i", "m", "a", "g", "e", "s">>
    [] content_type = "documents" -> <<"d", "o", "c", "u", "m", "e", "n", "t", "s">>
    [] content_type = "links" -> <<"l", "i", "n", "k", "s">>
    [] OTHER -> <<"n", "o", "t", "e", "s">>

\* A value of a parsed JSON object: a string ("str"), a list ("list"), a
\* number ("num"), null, or the key is missing.
JValue(t, v) == [t |-> t, v |-> v]
JMissing == JValue("missing", <<>>)
\* result.get(key, default)
JGet(value, default) == IF value.t = "missing" THEN default ELSE value

\* str(t)
StrOf(value) ==
  CASE value.t = "str" -> value.v
    [] value.t = "num" -> value.v
    [] value.t = "null" -> <<"N", "o", "n", "e">>
    [] OTHER -> <<"[", "]">>

\* ---------------------------------------------------------- the classifier
\* analyze_content (app/agents/organization.py).
GENERAL == <<"g", "e", "n", "e", "r", "a", "l">>
NO_TEXT_SUMMARY ==
  <<"N", "o", " ", "t", "e", "x", "t", " ", "c", "o", "n", "t", "e", "n",
     "t", " ", "a", "v", "a", "i", "l", "a", "b", "l", "e", " ", "f", "o",
     "r", " ", "a", "n", "a", "l", "y", "s", "i", "s", ".">>
AI_FAILED_SUMMARY ==
  <<"A", "I", " ", "a", "n", "a", "l", "y", "s", "i", "s", " ", "f", "a",
     "i", "l", "e", "d", " ", EM_DASH, " ", "c", "o", "n", "t", "e", "n", "t",
     " ", "s", "t", "o", "r", "e", "d", " ", "w", "i", "t", "h", "o", "u",
     "t", " ", "s", "u", "m", "m", "a", "r", "y", ".">>
NO_SUMMARY ==
  <<"N", "o", " ", "s", "u", "m", "m", "a", "r", "y", " ", "g", "e", "n",
     "e", "r", "a", "t", "e", "d", ".">>
MAX_TAGS == 5
MAX_SUMMARY == 500

\* The result for a text that is empty or blank.
EmptyTextResult(content_type) ==
  [tags |-> <<TypeText(content_type)>>, summary |-> NO_TEXT_SUMMARY,
   topic |-> GENERAL]

\* Mutant: the except clauses return what the empty text returns.
AnalysisFailedAsEmpty(content_type) == EmptyTextResult(content_type)

\* The result of both except clauses.
AnalysisFailed(content_type) ==
  [tags |-> <<TypeText(content_type)>>, summary |-> AI_FAILED_SUMMARY,
   topic |-> GENERAL]

\* The validation of the parsed object.
ValidateAnalysis(content_type, ai) ==
  LET tags0 == JGet(ai.tags, JValue("list", <<JValue("str", TypeText(content_type))>>))
      tags == IF tags0.t # "list" THEN <<JValue("str", TypeText(content_type))>>
                                  ELSE tags0.v
      summary0 == JGet(ai.summary, JValue("str", <<>>))
      summary == IF summary0.t # "str" \/ summary0.v = <<>>
                   THEN NO_SUMMARY ELSE summary0.v
      topic0 == JGet(ai.topic, JValue("str", GENERAL))
      topic == IF topic0.t # "str" \/ topic0.v = <<>>
                 THEN GENERAL ELSE topic0.v
  IN [tags |-> [k \in 1..(IF Len(tags) < MAX_TAGS THEN Len(tags) ELSE MAX_TAGS)
                  |-> strip(lower(StrOf(tags[k])))],
      summary |-> Take(summary, MAX_SUMMARY),
      topic |-> strip(lower(topic))]

\* The try block after the AI call and its except clauses: the call raised,
\* json.loads raised, the parsed value has no get, or the object is validated.
AnalyzeResponse(content_type, ai) ==
  IF ai.kind # "object" THEN AnalysisFailed(content_type)
                        ELSE ValidateAnalysis(content_type, ai)

\* The outcomes of the AI call.
AnalysisObject(tags, summary, topic) ==
  [kind |-> "object", tags |-> tags, summary |-> summary, topic |-> topic]
AnalysisFailure(kind) ==
  [kind |-> kind, tags |-> JMissing, summary |-> JMissing, topic |-> JMissing]

AnalyzeAI ==
  LET tagss ==
        { JMissing, JValue("null", <<>>), JValue("str", <<"a", "i">>), JValue("list", <<>>),
          JValue("list", <<JValue("str", <<" ", "A", "I", " ">>), JValue("num", <<"4", "2">>), JValue("null", <<>>)>>),
          JValue("list", [k \in 1..(MAX_TAGS + 1) |-> JValue("str", <<"T", "a", "g">>)]) }
      summaries ==
        { JMissing, JValue("num", <<"7">>), JValue("str", <<>>), JValue("str", <<" ">>),
          JValue("str", <<"S", "u", "m", ".">>), JValue("str", Rep("s", MAX_SUMMARY)),
          JValue("str", Rep("s", MAX_SUMMARY + 1)) }
      topics ==
        { JMissing, JValue("null", <<>>), JValue("str", <<>>), JValue("str", <<" ", " ">>), JValue("str", GENERAL),
          JValue("str", <<" ", "T", "e", "c", "h", " ">>),
          JValue("str", <<"m", "a", "c", "h", "i", "n", "e", " ", "l", "e", "a", "r", "n", "i",
                 "n", "g">>) }
  IN {AnalysisFailure(k) : k \in {"error", "nonjson", "nonobject"}}
     \cup {AnalysisObject(tags, summary, topic) :
             tags \in tagss, summary \in summaries, topic \in topics}

\* analyze_content(text, content_type), up to the AI call.
AnalyzeEnter ==
  /\ run.pc = "analyze_content"
  /\ IF IsBlank(run.text)
       THEN run' = [run EXCEPT !.pc = "returned",
                               !.result = EmptyTextResult(run.content_type)]
       ELSE run' = [run EXCEPT !.pc = "ai_call"]
  /\ UNCHANGED <<items, decisions, files, pub, runs>>

\* The AI call and what follows it in the try block.
AnalyzeCallAI ==
  /\ run.pc = "ai_call"
  /\ \E ai \in AnalyzeAI :
       run' = [run EXCEPT !.pc = "returned",
                          !.ai_calls = @ + 1,
                          !.ai = ai,
                          !.result = AnalyzeResponse(run.content_type, ai)]
  /\ UNCHANGED <<items, decisions, files, pub, runs>>

\* -------------------------------------------------------- the restructurer
\* restructure_for_github (app/agents/content_restructurer.py).
MAX_SUBFOLDER == 50
MAX_FILENAME == 60
MAX_SAFE_NAME == 40
MAX_COMMIT_MESSAGE == 120

\* The character classes [a-z0-9-] and [a-z0-9.\-].
SAFE_CHARS ==
  {LOWER[k] : k \in DOMAIN LOWER}
  \cup {"0", "1", "2", "3", "4", "5", "6", "7", "8", "9"} \cup {"-"}
FILENAME_CHARS == SAFE_CHARS \cup {"."}

\* re.sub(r"[^...]", "-", s)
ReSub(allowed, s) == [k \in DOMAIN s |-> IF s[k] \in allowed THEN s[k] ELSE "-"]

MD == <<".", "m", "d">>

\* s.endswith(suffix)
EndsWith(s, suffix) ==
  /\ Len(s) >= Len(suffix)
  /\ SubSeq(s, Len(s) - Len(suffix) + 1, Len(s)) = suffix

\* s.rsplit(c, 1)[0]
RSplitHead(s, c) ==
  IF \E k \in DOMAIN s : s[k] = c
    THEN LET last == CHOOSE k \in DOMAIN s :
                       s[k] = c /\ \A j \in DOMAIN s : s[j] = c => j <= k
         IN SubSeq(s, 1, last - 1)
    ELSE s

\* " ".join(f"`{t}`" for t in tags)
RECURSIVE TagLine(_)
TagLine(tags) ==
  IF tags = <<>> THEN <<>>
  ELSE IF Len(tags) = 1 THEN <<BACKTICK>> \o tags[1] \o <<BACKTICK>>
  ELSE <<BACKTICK>> \o tags[1] \o <<BACKTICK, " ">> \o TagLine(Tail(tags))

_build_default_markdown(original_name, tags, summary) ==
  <<"#", " ">> \o original_name \o <<"\n", "\n">>
  \o <<"*", "*", "S", "u", "m", "m", "a", "r", "y", ":", "*", "*", " ">> \o summary \o <<"\n", "\n">>
  \o <<"*", "*", "T", "a", "g", "s", ":", "*", "*", " ">> \o TagLine(tags) \o <<"\n">>

\* f"Add {content_type}: {original_name}"
DefaultCommitMessage(content_type, original_name) ==
  <<"A", "d", "d", " ">> \o TypeText(content_type) \o <<":", " ">>
  \o original_name

\* f"{safe_name}.md"
SafeFilename(original_name) ==
  Take(ReSub(SAFE_CHARS, lower(original_name)), MAX_SAFE_NAME) \o MD

RestructureResult(markdown, subfolder, filename, commit_msg) ==
  [markdown |-> markdown, suggested_subfolder |-> subfolder,
   suggested_filename |-> filename, commit_message |-> commit_msg]

\* isinstance(value, str) and value.strip()
IsText(value) == value.t = "str" /\ strip(value.v) # <<>>

_validate_result(result, content_type, original_name, tags, summary) ==
  LET markdown0 == JGet(result.markdown, JValue("str", <<>>))
      markdown == IF IsText(markdown0) THEN markdown0.v
                  ELSE _build_default_markdown(original_name, tags, summary)
      subfolder0 == JGet(result.suggested_subfolder, JValue("str", GENERAL))
      subfolder1 == IF IsText(subfolder0) THEN subfolder0.v ELSE GENERAL
      subfolder == Take(ReSub(SAFE_CHARS, strip(lower(subfolder1))),
                        MAX_SUBFOLDER)
      filename0 == JGet(result.suggested_filename, JValue("str", <<>>))
      filename1 == IF IsText(filename0) THEN filename0.v
                   ELSE SafeFilename(original_name)
      filename2 == Take(ReSub(FILENAME_CHARS, strip(lower(filename1))),
                        MAX_FILENAME)
      filename == IF EndsWith(filename2, MD) THEN filename2
                  ELSE RSplitHead(filename2, ".") \o MD
      commit_msg0 == JGet(result.commit_message, JValue("str", <<>>))
      commit_msg1 == IF IsText(commit_msg0) THEN commit_msg0.v
                     ELSE DefaultCommitMessage(content_type, original_name)
  IN RestructureResult(markdown, subfolder, filename,
                       Take(commit_msg1, MAX_COMMIT_MESSAGE))

\* Mutant: the fallback files everything under general.
_fallback_result_general(content_type, original_name, tags, summary, topic) ==
  RestructureResult(_build_default_markdown(original_name, tags, summary),
                    GENERAL, SafeFilename(original_name),
                    DefaultCommitMessage(content_type, original_name))

_fallback_result(content_type, original_name, tags, summary, topic) ==
  RestructureResult(_build_default_markdown(original_name, tags, summary),
                    IF topic = <<>> THEN GENERAL ELSE topic,
                    SafeFilename(original_name),
                    DefaultCommitMessage(content_type, original_name))

\* The outcomes of the AI call.
RestructureObject(markdown, subfolder, filename, commit_msg) ==
  [kind |-> "object", markdown |-> markdown, suggested_subfolder |-> subfolder,
   suggested_filename |-> filename, commit_message |-> commit_msg]
RestructureFailure(kind) ==
  [kind |-> kind, markdown |-> JMissing, suggested_subfolder |-> JMissing,
   suggested_filename |-> JMissing, commit_message |-> JMissing]

\* The try block after the AI call and its except clauses: the call raised,
\* json.loads raised, the parsed value has no get, or the object is validated.
RestructureResponse(ai, content_type, original_name, tags, summary, topic) ==
  IF ai.kind # "object"
    THEN _fallback_result(content_type, original_name, tags, summary, topic)
    ELSE _validate_result(ai, content_type, original_name, tags, summary)

RestructureAI ==
  LET markdowns ==
        { JMissing, JValue("str", <<" ">>), JValue("str", <<"#", " ", "T">>) }
      subfolders ==
        { JMissing, JValue("null", <<>>), JValue("str", <<" ">>),
          JValue("str", <<" ", "M", "y", " ", "F", "o", "l", "d", "e", "r", "/", "x", " ">>),
          JValue("str", <<"a", "i", "-", "t", "o", "o", "l", "s">>),
          JValue("str", Rep("S", MAX_SUBFOLDER + 1)) }
      filenames ==
        { JMissing, JValue("str", <<" ">>), JValue("str", <<".">>),
          JValue("str", <<"N", "o", "t", "e", "s", ".", "M", "D">>),
          JValue("str", <<"m", "y", " ", "n", "o", "t", "e", ".", "t", "x", "t">>),
          JValue("str", <<"r", "e", "p", "o", "r", "t">>),
          JValue("str", Rep("a", MAX_FILENAME)),
          JValue("str", Rep("a", MAX_FILENAME - 1) \o <<".">>),
          JValue("str", Rep("a", MAX_FILENAME - 2) \o MD) }
      commit_messages ==
        { JMissing, JValue("str", <<" ">>), JValue("str", <<"A", "d", "d", " ", "x">>),
          JValue("str", Rep("c", MAX_COMMIT_MESSAGE + 1)),
          JValue("str", Rep(" ", MAX_COMMIT_MESSAGE) \o <<"x">>) }
  IN {RestructureFailure(k) : k \in {"error", "nonjson", "nonobject"}}
     \cup {RestructureObject(m, s, f, c) :
             m \in markdowns, s \in subfolders, f \in filenames,
             c \in commit_messages}

\* restructure_for_github(...), up to the AI call.
RestructureEnter ==
  /\ run.pc = "restructure_for_github"
  /\ IF IsBlank(run.text)
       THEN run' = [run EXCEPT
              !.pc = "returned",
              !.result = _fallback_result(run.content_type, run.original_name,
                                          run.tags, run.summary, run.topic)]
       ELSE run' = [run EXCEPT !.pc = "ai_call"]
  /\ UNCHANGED <<items, decisions, files, pub, runs>>

\* The AI call and what follows it in the try block.
RestructureCallAI ==
  /\ run.pc = "ai_call"
  /\ \E ai \in RestructureAI :
       run' = [run EXCEPT
         !.pc = "returned",
         !.ai_calls = @ + 1,
         !.ai = ai,
         !.result = RestructureResponse(ai, run.content_type, run.original_name,
                                        run.tags, run.summary, run.topic)]
  /\ UNCHANGED <<items, decisions, files, pub, runs>>

\* ------------------------------------------------- the handlers' entry
\* detect_content_type and _has_publish_trigger, as document_handler calls
\* them on the file name, the MIME type and the caption of the message.

\* None, told apart from every text.
NoText == <<NONE>>

\* Path(filename).suffix: the final component of the path, from its last dot,
\* when that dot is neither the first nor the last character of the component.
suffix(filename) ==
  LET RECURSIVE name(_)
      name(s) ==
        IF s = <<>> THEN <<>>
        ELSE IF s[Len(s)] = "/" THEN name(SubSeq(s, 1, Len(s) - 1))
        ELSE LET slashes == {k \in DOMAIN s : s[k] = "/"}
                 start == IF slashes = {} THEN 0
                          ELSE CHOOSE k \in slashes : \A j \in slashes : j <= k
                 last == SubSeq(s, start + 1, Len(s))
             IN IF last = <<".">> THEN name(SubSeq(s, 1, start)) ELSE last
      n == name(filename)
      dots == {k \in DOMAIN n : n[k] = "."}
      i == IF dots = {} THEN 0 ELSE CHOOSE k \in dots : \A j \in dots : j <= k
  IN IF 1 < i /\ i < Len(n) THEN SubSeq(n, i, Len(n)) ELSE <<>>

\* Mutant: the extension is looked at before the MIME type.
detect_content_type_extension_first(filename, mime_type) ==
  LET ext == IF filename \notin {NoText, <<>>} THEN lower(suffix(filename)) ELSE <<>>
  IN IF ext \in {<<".", "p", "n", "g">>, <<".", "j", "p", "g">>} THEN "images"
     ELSE IF ext \in {<<".", "p", "d", "f">>, <<".", "d", "o", "c">>} THEN "documents"
     ELSE IF mime_type \notin {NoText, <<>>} /\ Take(mime_type, 6) = <<"i", "m", "a", "g", "e", "/">> THEN "images"
     ELSE "notes"

\* Mutant: an unrecognised MIME type ends the detection.
detect_content_type_mime_only(filename, mime_type) ==
  IF mime_type \notin {NoText, <<>>}
    THEN IF Take(mime_type, 6) = <<"i", "m", "a", "g", "e", "/">> THEN "images"
         ELSE IF mime_type = <<"a", "p", "p", "l", "i", "c", "a", "t", "i", "o", "n", "/", "p", "d",
     "f">> THEN "documents"
         ELSE "notes"
    ELSE IF filename \notin {NoText, <<>>}
           /\ lower(suffix(filename)) = <<".", "p", "d", "f">> THEN "documents"
    ELSE "notes"

detect_content_type(filename, mime_type) ==
  LET ext == lower(suffix(filename))
  IN IF /\ mime_type \notin {NoText, <<>>}
        /\ Take(mime_type, 6) = <<"i", "m", "a", "g", "e", "/">>
       THEN "images"
     ELSE IF /\ mime_type \notin {NoText, <<>>}
             /\ mime_type \in
                  {
                   <<"a", "p", "p", "l", "i", "c", "a", "t", "i", "o", "n", "/", "p", "d",
                     "f">>,
                   <<"a", "p", "p", "l", "i", "c", "a", "t", "i", "o", "n", "/", "v", "n",
                     "d", ".", "o", "p", "e", "n", "x", "m", "l", "f", "o", "r", "m", "a",
                     "t", "s", "-", "o", "f", "f", "i", "c", "e", "d", "o", "c", "u", "m",
                     "e", "n", "t", ".", "w", "o", "r", "d", "p", "r", "o", "c", "e", "s",
                     "s", "i", "n", "g", "m", "l", ".", "d", "o", "c", "u", "m", "e", "n",
                     "t">>,
                   <<"a", "p", "p", "l", "i", "c", "a", "t", "i", "o", "n", "/", "m", "s",
                     "w", "o", "r", "d">>}
       THEN "documents"
     ELSE IF /\ filename \notin {NoText, <<>>}
             /\ ext \in {<<".", "j", "p", "g">>, <<".", "j", "p", "e", "g">>,
                         <<".", "p", "n", "g">>, <<".", "g", "i", "f">>,
                         <<".", "b", "m", "p">>, <<".", "w", "e", "b", "p">>}
       THEN "images"
     ELSE IF /\ filename \notin {NoText, <<>>}
             /\ ext \in {<<".", "p", "d", "f">>, <<".", "d", "o", "c", "x">>,
                         <<".", "d", "o", "c">>}
       THEN "documents"
     ELSE "notes"

\* Mutant: the word boundary after the token is not asked for.
_has_publish_trigger_anywhere(text) ==
  /\ text \notin {NoText, <<>>}
  /\ \E k \in 1..Len(text) :
       k + 6 <= Len(text) /\ lower(SubSeq(text, k, k + 6)) = <<"#", "g", "i", "t", "h", "u", "b">>

\* <<"#", "g", "i", "t", "h", "u", "b">>_PATTERN.search(text): "#github" in any letter case, followed
\* by the end of the text or by a character that is not a word character.
_has_publish_trigger(text) ==
  LET word == {UPPER[k] : k \in DOMAIN UPPER} \cup {LOWER[k] : k \in DOMAIN LOWER}
                \cup {"0", "1", "2", "3", "4", "5", "6", "7", "8", "9", "_"}
  IN /\ text \notin {NoText, <<>>}
     /\ \E k \in 1..Len(text) :
          /\ k + 6 <= Len(text)
          /\ lower(SubSeq(text, k, k + 6)) = <<"#", "g", "i", "t", "h", "u", "b">>
          /\ k + 6 = Len(text) \/ text[k + 7] \notin word

\* content_type = detect_content_type(original_name, doc.mime_type)
DetectContentType ==
  /\ run.pc = "entry"
  /\ "detect_content_type" \notin run.returned
  /\ run' = [run EXCEPT
       !.content_type = detect_content_type(run.filename, run.mime_type),
       !.returned = @ \cup {"detect_content_type"}]
  /\ UNCHANGED <<items, decisions, files, pub, runs>>

\* should_publish = _has_publish_trigger(message.caption)
HasPublishTrigger ==
  /\ run.pc = "entry"
  /\ "_has_publish_trigger" \notin run.returned
  /\ run' = [run EXCEPT
       !.should_publish = _has_publish_trigger(run.text),
       !.returned = @ \cup {"_has_publish_trigger"}]
  /\ UNCHANGED <<items, decisions, files, pub, runs>>

\* ------------------------------------------------------ the specifications
Init ==
  /\ run = IdleRun
  /\ items = <<>>
  /\ decisions = <<>>
  /\ files = EmptyFiles
  /\ pub = [p \in Pubs |-> IdlePub]
  /\ runs = <<>>

Next ==
  \/ Receive
  \/ Download
  \/ SaveFile
  \/ ExtractText
  \/ AnalyzeContent
  \/ SaveContentItem
  \/ MakePublishDecision
  \/ SaveDecision
  \/ GetLatestUnpublished
  \/ RestructureForGithub
  \/ EnsureRepoFolders
  \/ PublishTextContent
  \/ PublishBinaryContent
  \/ UpdateGithubStatus

Spec == Init /\ [][Next]_vars

\* Every awaited call returns or raises: a handler that can take a step
\* eventually takes one.
SpecLive == Spec /\ WF_vars(Next)

InitPub ==
  /\ run = IdleRun
  /\ items = <<>>
  /\ decisions = <<>>
  /\ files \in InitialRepos
  /\ \E ops \in [Pubs -> Publishes \cup {"ensure"}] :
       pub = [p \in Pubs |-> PubInput(p, ops[p])]
  /\ runs = <<>>

NextPub ==
  \E p \in Pubs :
    \/ GetContents(p)
    \/ UpdateFile(p)
    \/ Probe(p)
    \/ CreateGitkeep(p)
    \/ CreateFile(p)

SpecPub == InitPub /\ [][NextPub]_vars

InitDecide ==
  /\ \E ai \in DecideAI, has_trigger \in BOOLEAN :
       run = [IdleRun EXCEPT !.pc = "decide", !.kind = "note",
                             !.message_id = 1, !.item_id = 1,
                             !.content_type = "notes", !.ai = ai,
                             !.should_publish = has_trigger]
  /\ items = <<>>
  /\ decisions = <<>>
  /\ files = EmptyFiles
  /\ pub = [p \in Pubs |-> IdlePub]
  /\ runs = <<>>

NextDecide == MakeDecision \/ PersistDecision

SpecDecide == InitDecide /\ [][NextDecide]_vars

InitRuns ==
  /\ run = IdleRun
  /\ items = <<>>
  /\ decisions = <<>>
  /\ files = EmptyFiles
  /\ pub = [p \in Pubs |-> IdlePub]
  /\ \E types \in [Runs -> {"documents", "notes"}],
        triggers \in [Runs -> BOOLEAN] :
       runs = [r \in Runs |->
                 [pc |-> "save_content_item", content_type |-> types[r],
                  should_publish |-> triggers[r], item_id |-> 0,
                  decision |-> NoDecision, github_url |-> NoUrl]]

NextRuns ==
  \/ \E r \in Runs :
       \/ RunSaveContentItem(r)
       \/ RunMakeAndPersistDecision(r)
       \/ RunPublishToGithub(r)
       \/ RunUpdateGithubStatus(r)
  \/ UpdateContentAiFields
  \/ Query

SpecRuns == InitRuns /\ [][NextRuns]_vars

InitAnalyze ==
  /\ \E text \in { <<>>, <<" ">>, <<" ", "\n", " ">>, <<"a">>, <<" ", "a", " ">> },
        content_type \in CONTENT_TYPES :
       run = [pc |-> "analyze_content", text |-> text,
              content_type |-> content_type, ai_calls |-> 0,
              ai |-> AnalysisFailure("none"),
              result |-> [tags |-> <<>>, summary |-> <<>>, topic |-> <<>>]]
  /\ items = <<>>
  /\ decisions = <<>>
  /\ files = EmptyFiles
  /\ pub = [p \in Pubs |-> IdlePub]
  /\ runs = <<>>

NextAnalyze == AnalyzeEnter \/ AnalyzeCallAI

SpecAnalyze == InitAnalyze /\ [][NextAnalyze]_vars

InitRestructure ==
  /\ \E text \in { <<>>, <<" ", "\n">>, <<"a">> },
        content_type \in {"notes", "documents"},
        original_name \in
          { <<"M", "y", " ", "F", "i", "l", "e", ".", "P", "D", "F">>,
          Rep("n", MAX_SAFE_NAME + 1),
          Rep("N", MAX_COMMIT_MESSAGE) },
        tags \in { <<>>, <<<<"a", "i">>, <<"m", "l">>>> },
        topic \in
          { <<>>, GENERAL,
          <<"m", "a", "c", "h", "i", "n", "e", " ", "l", "e", "a", "r", "n", "i", "n",
            "g">>,
          Rep("t", MAX_SUBFOLDER + 1) } :
       run = [pc |-> "restructure_for_github", text |-> text,
              content_type |-> content_type, original_name |-> original_name,
              tags |-> tags, summary |-> <<"S", "u", "m", ".">>, topic |-> topic,
              ai_calls |-> 0, ai |-> RestructureFailure("none"),
              result |-> RestructureResult(<<>>, <<>>, <<>>, <<>>)]
  /\ items = <<>>
  /\ decisions = <<>>
  /\ files = EmptyFiles
  /\ pub = [p \in Pubs |-> IdlePub]
  /\ runs = <<>>

NextRestructure == RestructureEnter \/ RestructureCallAI

SpecRestructure == InitRestructure /\ [][NextRestructure]_vars

InitEntry ==
  /\ \E filename \in
          { NoText,
          <<>>,
          <<"r", "e", "p", "o", "r", "t", ".", "p", "d", "f">>,
          <<"R", "e", "p", "o", "r", "t", ".", "P", "D", "F">>,
          <<"p", "i", "c", ".", "p", "n", "g">>,
          <<"p", "h", "o", "t", "o", ".", "J", "P", "G">>,
          <<".", "p", "d", "f">>,
          <<"a", ".">>,
          <<"d", "i", "r", ".", "p", "d", "f", "/", "r", "e", "a", "d", "m", "e">>,
          <<"x", ".", "t", "a", "r", ".", "g", "z">>,
          <<"r", "a", "n", "d", "o", "m", ".", "x", "y", "z">>,
          <<"a", ".", "p", "d", "f", " ">>,
          <<"d", "o", "c", "s", "/", ".", "/">> },
        mime_type \in
          { NoText,
          <<>>,
          <<"i", "m", "a", "g", "e", "/", "p", "n", "g">>,
          <<"i", "m", "a", "g", "e", "/">>,
          <<"I", "M", "A", "G", "E", "/", "P", "N", "G">>,
          <<"a", "p", "p", "l", "i", "c", "a", "t", "i", "o", "n", "/", "p", "d",
            "f">>,
          <<"a", "p", "p", "l", "i", "c", "a", "t", "i", "o", "n", "/", "m", "s",
            "w", "o", "r", "d">>,
          <<"t", "e", "x", "t", "/", "p", "l", "a", "i", "n">>,
          <<"a", "p", "p", "l", "i", "c", "a", "t", "i", "o", "n", "/", "p", "d",
            "f", "x">> },
        text \in
          { NoText,
          <<>>,
          <<"#", "g", "i", "t", "h", "u", "b">>,
          <<"p", "u", "b", "l", "i", "s", "h", " ", "t", "h", "i", "s", " ", "#",
            "G", "i", "t", "H", "u", "b">>,
          <<"#", "G", "I", "T", "H", "U", "B", " ", "n", "o", "w">>,
          <<"g", "i", "t", "h", "u", "b">>,
          <<"#", "g", "i", "t", "h", "u", "b", "b", "e", "r">>,
          <<"#", "g", "i", "t", "h", "u", "b", "_", "x">>,
          <<"#", "g", "i", "t", "h", "u", "b", "1">>,
          <<"#", " ", "g", "i", "t", "h", "u", "b">>,
          <<"#", "g", "i", "t", "h", "u", "b", "-", "p", "a", "g", "e", "s">>,
          <<"x", "#", "g", "i", "t", "h", "u", "b", ".">>,
          <<"#", "g", "i", "t", "h", "u">> } :
       run = [pc |-> "entry", filename |-> filename, mime_type |-> mime_type,
              text |-> text, returned |-> {}, content_type |-> "none",
              should_publish |-> FALSE]
  /\ items = <<>>
  /\ decisions = <<>>
  /\ files = EmptyFiles
  /\ pub = [p \in Pubs |-> IdlePub]
  /\ runs = <<>>

SpecEntry == InitEntry /\ [][DetectContentType \/ HasPublishTrigger]_vars

\* The /publish command on its own: the allowed user (or another one) sends
\* /publish commands to a bot whose database holds earlier ingestions: two
\* unpublished items of different seconds or of the same second, a published
\* item and an unpublished one, or one unpublished item.
InitPublish ==
  /\ run = IdleRun
  /\ \E second \in {0, 1}, first_published \in BOOLEAN, n \in {1, 2} :
       LET row(tbl, t, at) ==
             save_content_item(tbl, t, RawName, 0, AnalyzeResult(t).tags,
                               AnalyzeResult(t).summary, AnalyzeResult(t).topic,
                               at)
           one == row(<<>>, "notes", 0)
           two == row(one, "documents", second)
           decided(tbl, i) ==
             save_decision(tbl, STORE, RATIONALE_NO_TRIGGER, "high", i, 0)
           url == HtmlUrl(<<"notes", SubFolder, "a.md">>)
       IN /\ first_published => n = 2 /\ second = 1
          /\ items = IF first_published THEN update_github_status(two, 1, url)
                     ELSE IF n = 1 THEN one ELSE two
          /\ files = IF first_published
                       THEN publish_content(
                              ensure_repo_folders(EmptyFiles, GITHUB_CONTENT_TYPES,
                                                  Len(GITHUB_CONTENT_TYPES)),
                              <<"notes", SubFolder>>, "a.md", <<"markdown", 1>>)
                       ELSE EmptyFiles
          /\ decisions = IF n = 1 THEN decided(<<>>, 1)
                         ELSE decided(decided(<<>>, 1), 2)
  /\ pub = [p \in Pubs |-> IdlePub]
  /\ runs = <<>>

\* publish_handler, from the command to the end of the publish stage.
PublishCommand == Receive /\ run'.kind = "publish"

NextPublish ==
  \/ PublishCommand
  \/ GetLatestUnpublished
  \/ RestructureForGithub
  \/ EnsureRepoFolders
  \/ PublishTextContent
  \/ PublishBinaryContent
  \/ UpdateGithubStatus

SpecPublish == InitPublish /\ [][NextPublish]_vars

\* ------------------------------------------------------ claims: the pipeline
Attempted(op) == \E i \in DOMAIN run.log : run.log[i][1] = op
Did(event) == \E i \in DOMAIN run.log : run.log[i] = event
Before(e1, e2) ==
  \E i, j \in DOMAIN run.log : i < j /\ run.log[i] = e1 /\ run.log[j] = e2

RemoteOps == {"ensure_repo_folders", "publish_text_content", "publish_binary_content"}
PublishStageOps == RemoteOps \cup {"restructure_for_github", "update_github_status"}
RemoteAttempted == \E op \in RemoteOps : Attempted(op)
PublishEntered == Did(Reply("publishing"))
PublishStageRaised == \E op \in PublishStageOps : Did(Raised(op))

\* The rows the run in progress has committed.
ItemPersisted ==
  /\ run.item_id \in DOMAIN items
  /\ items[run.item_id].telegram_message_id = run.message_id
DecisionsOfRun ==
  {d \in DOMAIN decisions : decisions[d].telegram_message_id = run.message_id}

\* C1: in an ingestion run the ContentItem is saved before the Decision Engine
\* is invoked, and the save is what follows classification: no state has a
\* decision made or a remote write attempted for an item not yet persisted.
C1_SavedBeforeDecision ==
  run.kind \in Ingestion =>
    /\ (Attempted("make_publish_decision") \/ Attempted("save_decision")
        \/ RemoteAttempted \/ PublishEntered)
         => /\ ItemPersisted
            /\ Did(Called("save_content_item"))
    /\ Attempted("make_publish_decision")
         => Before(Called("save_content_item"), Called("make_publish_decision"))
    /\ Did(Called("analyze_content"))
         => run.pc = "save_content_item" \/ Attempted("save_content_item")

C1_Witness ==
  /\ run.kind \in Ingestion
  /\ Did(Called("analyze_content"))
  /\ Did(Called("make_publish_decision"))
  /\ Did(Called("publish_text_content"))
  /\ ItemPersisted

\* C2: a failure of a step of the publish stage is caught inside the stage:
\* the user gets the publish-failed reply, the handler goes on to its own
\* reply, and the step leaves the committed rows as they were.
C2_Caught ==
  PublishStageRaised =>
    /\ run.pc = "done"
    /\ Did(Reply("publish_failed"))
    /\ ~Did(Reply("error"))
    /\ run.kind \in Ingestion =>
         /\ Did(Reply("saved"))
         /\ ItemPersisted
         /\ ~items[run.item_id].github_published
         /\ Cardinality(DecisionsOfRun) = 1

C2_RowsKept ==
  (run.pc \in {"restructure_for_github", "ensure_repo_folders",
               "publish_text_content", "publish_binary_content",
               "update_github_status"}
   /\ Len(run'.log) > Len(run.log)
   /\ \E op \in PublishStageOps : run'.log[Len(run.log) + 1] = Raised(op))
    => (items' = items /\ decisions' = decisions)

C2_PublishFailureIsolated == [](C2_Caught) /\ [][C2_RowsKept]_vars

C2_Witness ==
  /\ run.kind \in Ingestion
  /\ Did(Raised("publish_binary_content"))
  /\ Did(Reply("publish_failed"))
  /\ Did(Reply("saved"))
  /\ ItemPersisted

\* C3 (as claimed): every run records its Decision before any remote write:
\* no remote write is performed by a run that has not first recorded its
\* Decision. The /publish run writes and records none.
C3_DecisionBeforeRemoteWrite ==
  RemoteAttempted =>
    /\ Did(Called("save_decision"))
    /\ Cardinality(DecisionsOfRun) = 1

\* C4: an ingestion run enters the publish stage iff the recorded Decision
\* recommends publishing; with store-locally it makes no restructure call and
\* no remote write, and ends in Stored.
C4_PublishIffRecommended ==
  (run.kind \in Ingestion /\ Did(Called("save_decision"))) =>
    \E d \in DecisionsOfRun :
      /\ PublishEntered <=> decisions[d].recommendation = PUBLISH
      /\ decisions[d].recommendation = STORE =>
           /\ ~Attempted("restructure_for_github")
           /\ ~RemoteAttempted
           /\ run.pc = "done"
           /\ run.log[Len(run.log)] = Reply("saved")
           /\ ~Did(Reply("published")) /\ ~Did(Reply("publish_failed"))

C4_NoPublishWithoutDecision ==
  (run.kind \in Ingestion /\ ~Did(Called("save_decision"))) =>
    ~PublishEntered /\ ~Attempted("restructure_for_github") /\ ~RemoteAttempted

C4_PublishStageIffPublish ==
  C4_PublishIffRecommended /\ C4_NoPublishWithoutDecision

C4_Witness ==
  /\ run.kind \in Ingestion
  /\ run.should_publish
  /\ Did(Called("save_decision"))
  /\ run.decision.recommendation = STORE
  /\ run.pc = "done"

\* C5: every ContentItem whose publish status is true has a remote locator.
C5_PublishedHasUrl ==
  \A i \in DOMAIN items :
    items[i].github_published => items[i].github_url # NoUrl

C5_Witness ==
  \E i \in DOMAIN items :
    /\ items[i].github_published
    /\ \E j \in DOMAIN items : ~items[j].github_published

\* The top-level folders a probe of the store reports not found, and their
\* placeholders.
MissingFolders(fs) ==
  {k \in 1..Len(GITHUB_CONTENT_TYPES) :
     get_contents(fs, <<GITHUB_CONTENT_TYPES[k]>>).status = 404}
Placeholders(ks) == {<<GITHUB_CONTENT_TYPES[k], GITKEEP>> : k \in ks}

\* C11: ensure_repo_folders is idempotent and runs once per publish attempt.
\* A step of it adds to the store the placeholders of folders its probe
\* reported missing and nothing else, and leaves every existing object as it
\* was; when it returns, every missing folder has got its placeholder, and a
\* second run on the resulting store changes nothing. In a run, it is called
\* at most once, and before the target file is published.
C11_EnsureStep ==
  run.pc = "ensure_repo_folders" =>
    /\ DOMAIN files' \ DOMAIN files \subseteq Placeholders(MissingFolders(files))
    /\ \A f \in DOMAIN files : f \in DOMAIN files' /\ files'[f] = files[f]
    /\ run'.pc = "publish_text_content" =>
         /\ DOMAIN files' \ DOMAIN files = Placeholders(MissingFolders(files))
         /\ MissingFolders(files') = {}
         /\ ensure_repo_folders(files', GITHUB_CONTENT_TYPES,
                                Len(GITHUB_CONTENT_TYPES)) = files'

C11_OncePerAttempt ==
  /\ Cardinality({k \in DOMAIN run.log :
                    run.log[k][1] = "ensure_repo_folders"}) <= 1
  /\ Attempted("publish_text_content") =>
       Before(Called("ensure_repo_folders"), <<"publish_text_content",
              IF Did(Called("publish_text_content")) THEN "ok" ELSE "raise">>)
  /\ PublishEntered /\ run.pc \in {"publish_text_content",
                                   "publish_binary_content",
                                   "update_github_status"}
       => Did(Called("ensure_repo_folders"))

C11_EnsureRepoFoldersIdempotent ==
  [](C11_OncePerAttempt) /\ [][C11_EnsureStep]_vars

\* A second publish attempt ran ensure_repo_folders on the store the first
\* attempt left, and an attempt's ensure_repo_folders created the folders.
C11_Witness ==
  /\ Did(Called("ensure_repo_folders"))
  /\ \E i \in DOMAIN items : i # run.item_id /\ items[i].github_published
  /\ MissingFolders(files) = {}

\* The ways an ingestion run that has persisted its ContentItem can end.
Terminal == run.pc = "done" /\ run.kind \in Ingestion /\ ItemPersisted
StatusUpdated ==
  /\ Did(Called("update_github_status")) /\ Did(Reply("published"))
  /\ items[run.item_id].github_published
Stored ==
  /\ Did(Called("save_decision")) /\ run.decision.recommendation = STORE
  /\ ~PublishEntered
  /\ ~items[run.item_id].github_published
PublishFailedEnd ==
  /\ PublishStageRaised /\ Did(Reply("publish_failed"))
  /\ ~items[run.item_id].github_published
DecisionNotRecorded ==
  /\ Did(Raised("save_decision")) /\ Did(Reply("error"))
  /\ DecisionsOfRun = {} /\ ~PublishEntered
  /\ ~items[run.item_id].github_published
ExactlyOne(outcomes) == Cardinality({k \in DOMAIN outcomes : outcomes[k]}) = 1
EveryRunEnds == (run.pc \notin {"idle", "done"}) ~> (run.pc = "done")

\* C12 as the claim states it: every run reaches a terminal state, and a run
\* that has persisted its ContentItem ends in exactly one of StatusUpdated,
\* Stored and PublishFailed.
C12_TerminalOneOfThree ==
  /\ EveryRunEnds
  /\ [](Terminal => ExactlyOne(<<StatusUpdated, Stored, PublishFailedEnd>>))

\* C12, amended: every run reaches a terminal state, and a run that has
\* persisted its ContentItem ends in exactly one of StatusUpdated, Stored,
\* PublishFailed and the end of a run whose Decision could not be recorded
\* (save_decision raised: error reply, ContentItem kept, no Decision, no
\* publish stage).
C12_TerminalOneOfFour ==
  /\ EveryRunEnds
  /\ [](Terminal => ExactlyOne(<<StatusUpdated, Stored, PublishFailedEnd,
                                 DecisionNotRecorded>>))

\* A run kept its ContentItem and ended on the failure to record the Decision.
C12_Witness == Terminal /\ DecisionNotRecorded /\ run.message_id = MaxUpdates

\* The Decision rows of the run in progress all recommend rec.
RecordedOnly(rec) ==
  /\ DecisionsOfRun # {}
  /\ \A d \in DecisionsOfRun : decisions[d].recommendation = rec

\* C13: with the AI call of the decision failing, the trigger alone decides.
\* A run with the trigger gets a publish decision, records it and enters the
\* publish stage; a run without the trigger gets a store-locally decision,
\* records it, and makes neither a restructure call nor a remote write.
C13_TriggerHonoredWithoutAI ==
  (run.kind \in Ingestion /\ run.ai.kind = "error") =>
    /\ run.decision.recommendation = IF run.should_publish THEN PUBLISH ELSE STORE
    /\ Did(Called("save_decision")) =>
         /\ RecordedOnly(run.decision.recommendation)
         /\ PublishEntered <=> run.should_publish
    /\ ~run.should_publish =>
         ~RemoteAttempted /\ ~Attempted("restructure_for_github")

\* A note with the trigger was published with the AI call failing.
C13_Witness ==
  /\ run.kind = "note" /\ run.ai.kind = "error" /\ run.should_publish
  /\ RecordedOnly(PUBLISH)
  /\ Did(Called("publish_text_content"))

C18_RepliesTellWhetherStored ==
  (run.pc = "done" /\ run.kind \in Ingestion) =>
    /\ ItemPersisted <=> (Did(Reply("saved")) \/ Did(Reply("publish_failed")))
    /\ Did(Reply("error")) => ~ItemPersisted

\* C19 (the replies taken as delivered): a publish failure is told apart from
\* a success. A run whose publish
\* stage raised was sent the publish-failed reply and no published reply; a
\* run whose publish stage went through was sent the published reply, with
\* the locator of the file it wrote, and no publish-failed reply; a run that
\* has left the publish stage was sent one of the two.
C19_PublishOutcomeReported ==
  /\ PublishStageRaised <=> Did(Reply("publish_failed"))
  /\ Did(Called("update_github_status")) <=> Did(Reply("published"))
  /\ ~(Did(Reply("published")) /\ Did(Reply("publish_failed")))
  /\ Did(Reply("published")) =>
       /\ run.github_url = HtmlUrl(Append(FolderPath, run.filename))
       /\ items[run.item_id].github_url = run.github_url
       /\ IsFile(files, Append(FolderPath, run.filename))
  /\ (PublishEntered /\ run.pc = "done") =>
       Did(Reply("published")) \/ Did(Reply("publish_failed"))

\* A /publish run was told of its success after an ingestion run whose item
\* stayed unpublished.
C19_Witness ==
  /\ run.kind = "publish" /\ Did(Reply("published"))
  /\ items[run.item_id].github_published

\* C20: a persistence failure ends the run and is surfaced. When saving the
\* ContentItem raises, the run calls neither the Decision Engine nor the
\* remote store, records nothing and ends on the error reply; when saving the
\* Decision raises, the run makes no restructure call and no remote write and
\* ends on the error reply.
C20_PersistenceFailureFatal ==
  /\ Did(Raised("save_content_item")) =>
       /\ run.pc = "done"
       /\ run.log[Len(run.log)] = Reply("error")
       /\ ~Attempted("make_publish_decision") /\ ~Attempted("save_decision")
       /\ ~Attempted("restructure_for_github") /\ ~RemoteAttempted
       /\ ~ItemPersisted /\ DecisionsOfRun = {}
  /\ Did(Raised("save_decision")) =>
       /\ run.pc = "done"
       /\ run.log[Len(run.log)] = Reply("error")
       /\ ~PublishEntered
       /\ ~Attempted("restructure_for_github") /\ ~RemoteAttempted
       /\ DecisionsOfRun = {}

\* The second run failed to save its ContentItem after the first had saved its own.
C20_Witness ==
  /\ Did(Raised("save_content_item"))
  /\ Len(items) = 1 /\ run.message_id = 2

\* C21: an extraction failure never aborts a run: extract_text returns the
\* empty text instead of raising, so a run that reached the extraction goes
\* on to the classification, the save of its ContentItem and the decision.
C21_ExtractionNeverAborts ==
  Attempted("extract_text") =>
    /\ ~Did(Raised("extract_text"))
    /\ run.pc = "done" /\ (\A i \in DOMAIN run.log : run.log[i][2] # "raise")
         => /\ Did(Called("analyze_content"))
            /\ ItemPersisted
            /\ DecisionsOfRun # {}

\* The publish attempt has raw bytes of an image or a document to publish.
RawFileDue == run.raw_bytes /\ run.content_type \in {"images", "documents"}

MarkdownPath == Append(FolderPath, run.filename)

\* C34: within a publish attempt the item's publish status is updated only
\* after the markdown publish and, for images and documents that have raw
\* bytes, the raw-file publish have both returned, and the locator recorded
\* is the one the markdown publish returned. When the raw-file publish fails
\* after the markdown was committed, the status stays false and the locator
\* absent although the remote store holds the markdown.
C34_StatusAfterBothPublishes ==
  PublishEntered =>
    /\ Attempted("update_github_status") =>
         /\ Before(Called("publish_text_content"),
                   run.log[CHOOSE k \in DOMAIN run.log :
                             run.log[k][1] = "update_github_status"])
         /\ RawFileDue =>
              Before(Called("publish_binary_content"),
                     run.log[CHOOSE k \in DOMAIN run.log :
                               run.log[k][1] = "update_github_status"])
    /\ ~Did(Called("update_github_status")) =>
         /\ ~items[run.item_id].github_published
         /\ items[run.item_id].github_url = NoUrl
    /\ Did(Called("update_github_status")) =>
         /\ items[run.item_id].github_published
         /\ items[run.item_id].github_url = HtmlUrl(MarkdownPath)
    /\ Did(Raised("publish_binary_content")) =>
         /\ Did(Called("publish_text_content"))
         /\ ~items[run.item_id].github_published
         /\ items[run.item_id].github_url = NoUrl
         /\ IsFile(files, MarkdownPath)
         /\ files[MarkdownPath] = Markdown

\* The raw-file publish of a document failed after its markdown was written.
C34_Witness ==
  /\ PublishEntered
  /\ RawFileDue
  /\ Did(Raised("publish_binary_content"))
  /\ IsFile(files, MarkdownPath)
  /\ ~items[run.item_id].github_published

\* The update in progress came from a user other than the allowed one, or
\* from no user.
Unauthorized == run.kind # "none" /\ run.user # "allowed"

\* What holds in every state of an unauthorized run: the access-denied reply
\* is all its log holds (no file saved, no query, no AI call, no remote
\* call), and no row is its own.
C38_InEveryState ==
  Unauthorized =>
    /\ run.pc = "done"
    /\ run.log = <<Reply("denied")>>
    /\ \A i \in DOMAIN items : items[i].telegram_message_id # run.message_id
    /\ DecisionsOfRun = {}

\* What holds of every step into an unauthorized run: the database and the
\* remote repository are left as they were.
C38_InEveryStep ==
  (run'.kind # "none" /\ run'.user # "allowed") =>
    /\ items' = items
    /\ decisions' = decisions
    /\ files' = files

\* C38: no message from a user other than the single allowed user has any
\* effect. For every handler, the content handlers and the commands, an
\* unauthorized or missing user gets the access-denied reply and nothing
\* else: no file saved, no ContentItem or Decision persisted, no query run,
\* no AI call and no remote write.
C38_UnauthorizedHasNoEffect ==
  []C38_InEveryState /\ [][C38_InEveryStep]_vars

\* Another user's /publish was denied while an unpublished item waits.
C38_Witness ==
  /\ run.kind = "publish"
  /\ run.user = "other"
  /\ run.log = <<Reply("denied")>>
  /\ \E i \in DOMAIN items : ~items[i].github_published

\* ------------------------------------------- claims: the /publish command
\* The row i is unpublished and no unpublished row has a later created_at.
NewestUnpublished(i) ==
  /\ i \in DOMAIN items
  /\ ~items[i].github_published
  /\ \A j \in DOMAIN items :
       ~items[j].github_published => items[j].created_at <= items[i].created_at

\* What holds in every state of a /publish run.
C36_InEveryState ==
  run.kind = "publish" =>
    /\ (PublishEntered /\ ~Did(Called("update_github_status"))) =>
         NewestUnpublished(run.item_id)
    /\ Did(Called("update_github_status")) =>
         /\ items[run.item_id].github_published
         /\ ~NewestUnpublished(run.item_id)
    /\ PublishStageRaised =>
         /\ run.pc = "done"
         /\ NewestUnpublished(run.item_id)
    /\ (run.failed_item # 0 /\ PublishEntered) =>
         /\ items[run.item_id].created_at = items[run.failed_item].created_at
         /\ (\A j \in DOMAIN items \ {run.failed_item} :
               items[j].created_at # items[run.failed_item].created_at)
              => run.item_id = run.failed_item
    /\ Did(Reply("none_unpublished")) =>
         /\ \A i \in DOMAIN items : items[i].github_published
         /\ ~Attempted("restructure_for_github")
         /\ ~RemoteAttempted
    /\ RemoteAttempted => PublishEntered

\* What holds of every step: a published item stays published, and the item
\* a /publish selects is unpublished.
C36_InEveryStep ==
  /\ \A i \in DOMAIN items :
       items[i].github_published =>
         i \in DOMAIN items' /\ items'[i].github_published
  /\ (run.pc = "get_latest_unpublished" /\ run'.pc = "restructure_for_github")
       => ~items[run'.item_id].github_published

C37_DistinctItemsDistinctPaths ==
  \A i, j \in DOMAIN items :
    (i # j /\ items[i].github_published /\ items[j].github_published) =>
      /\ items[i].github_url # items[j].github_url
      /\ files[items[i].github_url[2]] = <<"markdown", i>>

\* ---------------------------------------------- claims: the concurrent runs
RunSaved(r) == runs[r].item_id # 0
RunStatusUpdate(r) ==
  runs[r].pc = "update_github_status" /\ runs'[r].pc = "done"

\* C22: two runs for different inbound messages do not interfere, however
\* their steps interleave: each run that saved its ContentItem holds the id of
\* a row that carries its own message, distinct from the other run's; every
\* Decision carries the id of the item the run that recorded it saved; and a
\* run's status update changes no row but that run's.
C22_Persisted ==
  /\ \A r \in Runs :
       RunSaved(r) => /\ runs[r].item_id \in DOMAIN items
                      /\ items[runs[r].item_id].telegram_message_id = r
  /\ \A r, q \in Runs :
       RunSaved(r) /\ RunSaved(q) /\ r # q => runs[r].item_id # runs[q].item_id
  /\ \A d \in DOMAIN decisions :
       LET r == decisions[d].telegram_message_id
       IN /\ RunSaved(r)
          /\ decisions[d].content_item_id = runs[r].item_id
C22_OwnRowOnly ==
  \A r \in Runs :
    RunStatusUpdate(r) =>
      /\ Len(items') = Len(items)
      /\ \A i \in DOMAIN items : i # runs[r].item_id => items'[i] = items[i]
C22_RunsDoNotInterfere == [](C22_Persisted) /\ [][C22_OwnRowOnly]_vars

\* Both runs are through, interleaved: run 2 saved its item second and
\* recorded its decision first, and both items are published.
C22_Witness ==
  /\ \A r \in Runs : runs[r].pc = "done" /\ RunSaved(r)
  /\ runs[2].item_id = 2
  /\ Len(decisions) = 2
  /\ decisions[1].telegram_message_id = 2
  /\ \A i \in DOMAIN items : items[i].github_published

\* A run whose publish stage ended in its except clause before the markdown
\* was published.
RunPublishFailed(r) ==
  /\ runs[r].pc = "done"
  /\ runs[r].decision.recommendation = PUBLISH
  /\ runs[r].github_url = NoUrl

\* C23: the decisions are an append-only audit trail: no step of a run (a
\* failed publish stage included) and no repository operation removes a
\* Decision or changes a field of one; a step only appends.
C23_Kept ==
  /\ Len(decisions') >= Len(decisions)
  /\ \A d \in DOMAIN decisions : decisions'[d] = decisions[d]
C23_DecisionsAppendOnly == [][C23_Kept]_vars

\* Two decisions are on record, one of them of a run whose publish failed.
C23_Witness ==
  /\ Len(decisions) = 2
  /\ \E r \in Runs :
       /\ RunPublishFailed(r)
       /\ \E d \in DOMAIN decisions : decisions[d].content_item_id = runs[r].item_id

\* C24: the publish status and the remote locator of a ContentItem change
\* only in the status update of the run that published it, which sets the
\* locator its publish returned; saving items, saving decisions, updating the
\* AI fields, the queries and a failed publish leave both as they were; the
\* status update leaves tags, summary and topic as they were; no step removes
\* a row.
C24_PublishFieldsKept(i) ==
  /\ items'[i].github_published = items[i].github_published
  /\ items'[i].github_url = items[i].github_url
C24_AiFieldsKept(i) ==
  /\ items'[i].tags = items[i].tags
  /\ items'[i].summary = items[i].summary
  /\ items'[i].topic = items[i].topic
C24_Frame ==
  /\ Len(items') >= Len(items)
  /\ \A i \in DOMAIN items :
       /\ items'[i].id = items[i].id
       /\ C24_PublishFieldsKept(i)
          \/ \E r \in Runs :
               /\ RunStatusUpdate(r)
               /\ runs[r].item_id = i
               /\ runs[r].github_url # NoUrl
               /\ items'[i].github_published
               /\ items'[i].github_url = runs[r].github_url
       /\ (\E r \in Runs : RunStatusUpdate(r)) => C24_AiFieldsKept(i)
C24_PublishFieldsOnlyByStatusUpdate == [][C24_Frame]_vars

\* An item is published with its AI fields edited since, next to the item of
\* a run whose publish failed.
C24_Witness ==
  /\ \E i \in DOMAIN items :
       /\ items[i].github_published
       /\ items[i].tags = "edited"
       /\ items[i].summary = "edited"
  /\ \E r \in Runs :
       /\ RunPublishFailed(r)
       /\ RunSaved(r)
       /\ ~items[runs[r].item_id].github_published

\* --------------------------------------------------- claims: the classifier
AnalyzeReturned == run.pc = "returned"

\* C25: for a text that is not blank analyze_content raises nothing: when the
\* AI call fails, answers text that is no JSON, or JSON that is no object, it
\* returns tags = [category], the AI-analysis-failed summary and the topic
\* general, and that summary is not the one of the empty-text result.
C25_FailureGivesDegenerateResult ==
  AnalyzeReturned /\ ~(run.text = <<>> \/ strip(run.text) = <<>>)
    => /\ run.ai_calls = 1
       /\ run.ai.kind \in {"error", "nonjson", "nonobject"}
            => /\ run.result.tags = <<TypeText(run.content_type)>>
               /\ run.result.summary = AI_FAILED_SUMMARY
               /\ run.result.topic = GENERAL
               /\ run.result.summary # NO_TEXT_SUMMARY
               /\ run.result.summary
                    # EmptyTextResult(run.content_type).summary

C25_Witness ==
  /\ AnalyzeReturned
  /\ run.text = <<" ", "a", " ">>
  /\ run.ai.kind = "nonobject"
  /\ run.result.summary = AI_FAILED_SUMMARY

\* C26: for a text that is empty or only whitespace, and every category,
\* analyze_content returns tags = [category] and the topic general, and the
\* AI is not called.
C26_BlankTextSkipsAI ==
  /\ run.text = <<>> \/ (\A k \in DOMAIN run.text : run.text[k] \in WHITESPACE)
       => /\ run.ai_calls = 0
          /\ run.pc # "ai_call"
          /\ AnalyzeReturned
               => /\ run.result.tags = <<TypeText(run.content_type)>>
                  /\ run.result.topic = GENERAL
  /\ run.pc = "analyze_content" => run.ai_calls = 0

C26_Witness ==
  /\ AnalyzeReturned
  /\ run.text = <<" ", "\n", " ">>
  /\ run.content_type = "links"
  /\ run.result.tags = <<TypeText("links")>>

\* C27: whatever the AI answers, the result of analyze_content has at most 5
\* tags, each lower-cased text ([category] when the AI's tags are no list), a
\* summary that is not empty and has at most 500 characters, and a topic that
\* is not empty, lower-cased and trimmed (general when the AI's topic is
\* missing, empty or no text).
C27_AnalysisWellFormed ==
  AnalyzeReturned =>
    /\ Len(run.result.tags) <= 5
    /\ \A k \in DOMAIN run.result.tags :
         lower(run.result.tags[k]) = run.result.tags[k]
    /\ run.ai.kind = "object" /\ run.ai.tags.t \notin {"list", "missing"}
         => run.result.tags = <<TypeText(run.content_type)>>
    /\ Len(run.result.summary) \in 1..500
    /\ run.result.topic # <<>>
    /\ lower(run.result.topic) = run.result.topic
    /\ strip(run.result.topic) = run.result.topic
    /\ run.ai.kind = "object"
       /\ (run.ai.topic.t # "str" \/ run.ai.topic.v = <<>>)
         => run.result.topic = GENERAL

\* ------------------------------------------------- claims: the restructurer
RestructureReturned == run.pc = "returned"
OnlyChars(s, allowed) == \A k \in DOMAIN s : s[k] \in allowed
AZ09 ==
  {"a", "b", "c", "d", "e", "f", "g", "h", "i", "j", "k", "l", "m", "n", "o",
   "p", "q", "r", "s", "t", "u", "v", "w", "x", "y", "z",
   "0", "1", "2", "3", "4", "5", "6", "7", "8", "9"}
FromFallback == run.ai_calls = 0 \/ run.ai.kind # "object"

\* C28: every result of restructure_for_github, from the AI path or from the
\* fallback, is sanitized: the subfolder is not empty, is made of [a-z0-9-]
\* and has at most 50 characters; the filename is made of [a-z0-9.-], has at
\* most 60 characters and ends with .md; the commit message has at most 120
\* characters.
C28_ResultSanitized ==
  RestructureReturned =>
    /\ run.result.suggested_subfolder # <<>>
    /\ OnlyChars(run.result.suggested_subfolder, AZ09 \cup {"-"})
    /\ Len(run.result.suggested_subfolder) <= 50
    /\ OnlyChars(run.result.suggested_filename, AZ09 \cup {"-", "."})
    /\ Len(run.result.suggested_filename) <= 60
    /\ EndsWith(run.result.suggested_filename, <<".", "m", "d">>)
    /\ Len(run.result.commit_message) <= 120

\* The validation step applied to a result.
AsObject(result) ==
  RestructureObject(JValue("str", result.markdown), JValue("str", result.suggested_subfolder),
                    JValue("str", result.suggested_filename),
                    JValue("str", result.commit_message))
ValidatedAgain ==
  _validate_result(AsObject(run.result), run.content_type, run.original_name,
                   run.tags, run.summary)

\* C29: the validation is idempotent: applied to a result it produced, it
\* returns the same subfolder, filename and commit message.
C29_ValidationIdempotent ==
  RestructureReturned /\ ~FromFallback =>
    /\ ValidatedAgain.suggested_subfolder = run.result.suggested_subfolder
    /\ ValidatedAgain.suggested_filename = run.result.suggested_filename
    /\ ValidatedAgain.commit_message = run.result.commit_message

\* C30: on a text that is empty or only whitespace restructure_for_github
\* calls no AI and returns the default document; when the AI call raises or
\* its answer does not parse it returns the same document for the same
\* arguments: the markdown stub of name, summary and tags, the supplied topic
\* as subfolder (general when the topic is empty), the sanitized original
\* name with .md as filename, and the commit message naming the category and
\* the item.
C30_DefaultDocument ==
  /\ IsBlank(run.text) => run.ai_calls = 0 /\ run.pc # "ai_call"
  /\ RestructureReturned /\ FromFallback =>
       /\ run.ai_calls = 0 <=> IsBlank(run.text)
       /\ run.result.markdown
            = _build_default_markdown(run.original_name, run.tags, run.summary)
       /\ run.result.suggested_subfolder
            = (IF run.topic = <<>> THEN GENERAL ELSE run.topic)
       /\ run.result.suggested_filename
            = Take(ReSub(SAFE_CHARS, lower(run.original_name)), 40)
              \o <<".", "m", "d">>
       /\ run.result.commit_message
            = <<"A", "d", "d", " ">> \o TypeText(run.content_type)
              \o <<":", " ">> \o run.original_name

\* The AI call failed on a text that is not blank, with a topic and tags
\* supplied.
C30_Witness ==
  /\ RestructureReturned
  /\ run.ai.kind = "nonjson"
  /\ run.ai_calls = 1
  /\ run.tags # <<>>
  /\ run.topic \notin {<<>>, GENERAL}
  /\ run.result.suggested_subfolder = run.topic

\* ---------------------------------------- claims: the handlers' entry
Detected == "detect_content_type" \in run.returned

TriggerComputed == "_has_publish_trigger" \in run.returned

\* The MIME type is present and starts with image/.
ImageMime ==
  /\ run.mime_type # NoText
  /\ Len(run.mime_type) >= 6
  /\ SubSeq(run.mime_type, 1, 6) = <<"i", "m", "a", "g", "e", "/">>

\* C31: for every (filename, mime) pair whose mime starts with image/, detect
\* returns images, whatever the filename is: missing, or with a document
\* extension.
C31_ImageMimeWins ==
  (Detected /\ ImageMime) => run.content_type = "images"

\* An image MIME type with a file name that has a document extension.
C31_Witness ==
  /\ Detected
  /\ ImageMime
  /\ run.filename = <<"r", "e", "p", "o", "r", "t", ".", "p", "d", "f">>
  /\ run.content_type = "images"

\* The file name's extension in lower case; no extension without a file name.
Extension ==
  IF run.filename \in {NoText, <<>>} THEN <<>> ELSE lower(suffix(run.filename))

DocumentMime ==
  run.mime_type \in
    { <<"a", "p", "p", "l", "i", "c", "a", "t", "i", "o", "n", "/", "p", "d",
                        "f">>,
      <<"a", "p", "p", "l", "i", "c", "a", "t", "i", "o", "n", "/", "v", "n",
                        "d", ".", "o", "p", "e", "n", "x", "m", "l", "f", "o", "r", "m", "a",
                        "t", "s", "-", "o", "f", "f", "i", "c", "e", "d", "o", "c", "u", "m",
                        "e", "n", "t", ".", "w", "o", "r", "d", "p", "r", "o", "c", "e", "s",
                        "s", "i", "n", "g", "m", "l", ".", "d", "o", "c", "u", "m", "e", "n",
                        "t">>,
      <<"a", "p", "p", "l", "i", "c", "a", "t", "i", "o", "n", "/", "m", "s",
                        "w", "o", "r", "d">> }

\* C32: detect always returns one of images, documents, notes, by a fixed
\* priority: a recognised MIME type decides; otherwise, also when the MIME
\* type is present but unrecognised, the extension of the file name decides,
\* in any letter case; otherwise the result is notes. detect("report.pdf",
\* none) is documents and detect(none, none) is notes.
C32_DetectPriority ==
  Detected =>
    /\ run.content_type \in {"images", "documents", "notes"}
    /\ run.content_type =
         IF ImageMime THEN "images"
         ELSE IF DocumentMime THEN "documents"
         ELSE IF Extension \in
                   {<<".", "j", "p", "g">>, <<".", "j", "p", "e", "g">>,
                    <<".", "p", "n", "g">>, <<".", "g", "i", "f">>,
                    <<".", "b", "m", "p">>, <<".", "w", "e", "b", "p">>}
           THEN "images"
         ELSE IF Extension \in
                   {<<".", "p", "d", "f">>, <<".", "d", "o", "c", "x">>,
                    <<".", "d", "o", "c">>}
           THEN "documents"
         ELSE "notes"
    /\ (run.filename = <<"r", "e", "p", "o", "r", "t", ".", "p", "d", "f">> /\ run.mime_type = NoText)
         => run.content_type = "documents"
    /\ (run.filename = NoText /\ run.mime_type = NoText)
         => run.content_type = "notes"

\* An unrecognised MIME type with a file name whose extension is in upper
\* case: the extension decides.
C32_Witness ==
  /\ Detected
  /\ run.mime_type = <<"t", "e", "x", "t", "/", "p", "l", "a", "i", "n">>
  /\ run.filename = <<"R", "e", "p", "o", "r", "t", ".", "P", "D", "F">>
  /\ run.content_type = "documents"

\* Some occurrence of "#github", in any letter case, that is not the prefix of
\* a longer word.
HasToken ==
  /\ run.text # NoText
  /\ \E k \in 1..Len(run.text) :
       /\ k + 6 <= Len(run.text)
       /\ \A j \in 1..7 :
            \/ run.text[k + j - 1] = <<"#", "g", "i", "t", "h", "u", "b">>[j]
            \/ /\ j > 1
               /\ \E u \in DOMAIN UPPER :
                    UPPER[u] = run.text[k + j - 1] /\ LOWER[u] = <<"#", "g", "i", "t", "h", "u", "b">>[j]
       /\ \/ k + 6 = Len(run.text)
          \/ /\ \A u \in DOMAIN UPPER :
                  run.text[k + 7] \notin {UPPER[u], LOWER[u]}
             /\ run.text[k + 7] \notin
                  {"0", "1", "2", "3", "4", "5", "6", "7", "8", "9", "_"}

\* C33: the trigger is computed from the text alone: has_trigger is true
\* exactly when the text contains the token #github in any letter case, and
\* false for a missing text, an empty text, the word github without the hash,
\* and #github as the prefix of a longer word.
C33_TriggerIsExactToken ==
  TriggerComputed =>
    /\ run.should_publish <=> HasToken
    /\ run.text \in { NoText, <<>>, <<"g", "i", "t", "h", "u", "b">>,
                      <<"#", "g", "i", "t", "h", "u", "b", "b", "e", "r">> }
         => ~run.should_publish

\* The token in mixed case inside a sentence.
C33_Witness ==
  /\ TriggerComputed
  /\ run.text = <<"p", "u", "b", "l", "i", "s", "h", " ", "t", "h", "i", "s", " ", "#",
                        "G", "i", "t", "H", "u", "b">>
  /\ run.should_publish

\* ------------------------------------------- claims: the decision engine
Decided == run.pc \in {"persist", "returned", "raised"}
TheFallback(has_trigger) ==
  IF has_trigger
    THEN [recommendation |-> "publish_to_github",
          rationale |-> "Explicit publish trigger detected. User requested GitHub publishing.",
          confidence |-> "high"]
    ELSE [recommendation |-> "store_locally_only",
          rationale |-> "No publish trigger present. Content stored locally only.",
          confidence |-> "high"]

\* C14: the fallback decision is a function of has_trigger alone: publish,
\* high, the rationale naming the trigger when it is set; store-locally,
\* high, the rationale naming the absence of a trigger when it is not. The
\* decision made is exactly this value whenever the AI call fails or its
\* answer is not parseable JSON.
C14_FallbackDecision ==
  /\ \A t \in BOOLEAN : fallback_decision(t) = TheFallback(t)
  /\ Decided /\ run.ai.kind \in {"error", "nonjson"}
       => run.decision = TheFallback(run.should_publish)

C14_Witness ==
  /\ run.pc = "returned" /\ run.ai.kind = "nonjson" /\ ~run.should_publish
  /\ run.decision.recommendation = STORE /\ run.decision.confidence = "high"

\* C15: a parsed payload whose recommendation is missing, not a string, or
\* outside the enumeration is given publish_to_github when has_trigger is
\* true and store_locally_only when it is false.
C15_InvalidRecommendationNormalized ==
  \A t \in BOOLEAN : \A ai \in DecideAI :
    (ai.kind = "object" /\ ai.recommendation \notin {PUBLISH, STORE}) =>
      /\ validate_decision(ai, t).recommendation = IF t THEN PUBLISH ELSE STORE
      /\ (Decided /\ run.ai = ai /\ run.should_publish = t) =>
           run.decision.recommendation = IF t THEN PUBLISH ELSE STORE

C15_Witness ==
  /\ run.pc = "returned" /\ run.ai.kind = "object"
  /\ run.ai.recommendation = NOT_STR /\ run.should_publish
  /\ run.decision.recommendation = PUBLISH

\* A decision within the enumerations, with a rationale that is not empty.
WellFormedDecision(d) ==
  /\ d.recommendation \in {"publish_to_github", "store_locally_only"}
  /\ d.confidence \in {"high", "medium", "low"}
  /\ d.rationale \notin {"", BLANK, MISSING, NOT_STR}

\* C16: whatever the AI call's outcome, the decision made and every Decision
\* row persisted has its recommendation and its confidence within their
\* enumerations and a rationale that is not empty; a confidence outside the
\* enumeration becomes high when has_trigger is true and medium otherwise.
C16_DecisionWellFormed ==
  /\ Decided => WellFormedDecision(run.decision)
  /\ \A d \in DOMAIN decisions : WellFormedDecision(decisions[d])
  /\ run.pc = "returned" =>
       /\ Len(decisions) = 1
       /\ decisions[1].recommendation = run.decision.recommendation
       /\ decisions[1].rationale = run.decision.rationale
       /\ decisions[1].confidence = run.decision.confidence
  /\ (Decided /\ run.ai.kind = "object"
      /\ run.ai.confidence \notin {"high", "medium", "low"})
       => run.decision.confidence =
            IF run.should_publish THEN "high" ELSE "medium"

C16_Witness ==
  /\ run.pc = "returned" /\ ~run.should_publish
  /\ run.ai = AIObject("maybe", BLANK, "certain")
  /\ decisions[1].confidence = "medium"
  /\ decisions[1].rationale = RATIONALE_NO_TRIGGER

\* The validation wrote the rationale itself: the AI answered an object whose
\* rationale is missing, empty, blank or not text.
RationaleSynthesized ==
  /\ Decided
  /\ run.ai.kind = "object"
  /\ run.ai.rationale \in {"<missing>", "<not a string>", "", "   "}

\* C39: a rationale the validation synthesizes agrees with the trigger flag:
\* it says that no publish trigger is present only when has_trigger is false,
\* and that an explicit trigger was detected only when has_trigger is true.
C39_SynthesizedRationaleAgrees ==
  RationaleSynthesized =>
    /\ run.decision.rationale =
         "No publish trigger present. Content stored locally only."
         => ~run.should_publish
    /\ run.decision.rationale =
         "Explicit publish trigger detected. User requested GitHub publishing."
         => run.should_publish

\* ----------------------------------------------------- claims: the publisher
IsPublish(p) == pub[p].op \in Publishes
Returned(p) == pub[p].pc = "returned"
HasRaised(p) == pub[p].pc = "raised"
Finished(p) == Returned(p) \/ HasRaised(p)
Calls(p) == pub[p].calls
LastCall(p) == Calls(p)[Len(Calls(p))]
ReadStatus(p) == Calls(p)[1][3]
HasRead(p) == IsPublish(p) /\ Len(Calls(p)) >= 1
IsPlaceholder(path) == path[Len(path)] = GITKEEP
Ancestors(p) == {SubSeq(pub[p].folder_path, 1, n) : n \in 1..Len(pub[p].folder_path)}

\* The ancestor d is known to exist before call k of p: p probed it and found
\* it, or p created its placeholder.
EnsuredBefore(p, d, k) ==
  \E j \in 1..(k - 1) :
    \/ Calls(p)[j] = Call("get_contents", d, 200)
    \/ Calls(p)[j] = Call("create_file", Append(d, GITKEEP), 201)

C7_OtherFailuresPropagate ==
  \A p \in Pubs : \A k \in 1..Len(Calls(p)) :
    ~Succeeded(Calls(p)[k][3]) /\ Calls(p)[k][3] # 404 =>
      /\ k = Len(Calls(p))
      /\ HasRaised(p)
      /\ pub[p].exc = Calls(p)[k][3]

\* A publish raised the failure of its write, and an ensure_repo_folders the
\* failure of its probe of a top-level folder.
C7_Witness ==
  \E p, q \in Pubs :
    /\ IsPublish(p) /\ HasRaised(p) /\ pub[p].exc = OTHER_FAILURE
    /\ LastCall(p)[1] \in {"update_file", "create_file"}
    /\ pub[q].op = "ensure" /\ HasRaised(q) /\ pub[q].exc = OTHER_FAILURE
    /\ LastCall(q)[1] = "get_contents"

\* p published to a path that held no object, q published to the same path
\* after p had returned, and no other publish has written.
C8_Twice(p, q) ==
  /\ p # q /\ HasRead(p) /\ HasRead(q)
  /\ FilePath(p) = FilePath(q)
  /\ ReadStatus(p) = 404 /\ Returned(p)
  /\ p \in pub[q].after
  /\ \A r \in Pubs \ {p, q} : ~(IsPublish(r) /\ Returned(r))

\* C8: publishing twice to a path that held no object creates the first time
\* and updates the second time. The second publish, when the store fails none
\* of its calls, returns after exactly a read and an update: it creates no
\* ancestor placeholder. The store then holds one object at the path, with the
\* second publish's content.
C8_CreateThenUpdate ==
  \A p, q \in Pubs : C8_Twice(p, q) =>
    /\ LastCall(p) = Call("create_file", FilePath(p), 201)
    /\ \A k \in 1..Len(Calls(p)) : Calls(p)[k][1] # "update_file"
    /\ \A k \in 1..Len(Calls(q)) :
         ~(Calls(q)[k][1] = "create_file" /\ Calls(q)[k][3] = 201)
    /\ Finished(q) /\ ~pub[q].injected => Returned(q)
    /\ Returned(q) =>
         /\ Calls(q) = <<Call("get_contents", FilePath(q), 200),
                         Call("update_file", FilePath(q), 200)>>
         /\ files[FilePath(q)] = pub[q].content
         /\ {f \in DOMAIN files : ~IsPlaceholder(f)} = {FilePath(q)}

C8_Witness ==
  \E p, q \in Pubs : C8_Twice(p, q) /\ Returned(q)

\* The publishes p and q of one path ran concurrently: neither made its read
\* after the other had returned.
Concurrent(p, q) ==
  /\ p # q /\ HasRead(p) /\ HasRead(q)
  /\ FilePath(p) = FilePath(q)
  /\ p \notin pub[q].after /\ q \notin pub[p].after

\* C9 as the claim states it: two concurrent publishes to one path, the store
\* failing no call of its own, both complete, and the later write's content
\* is the one left at the path.
C9_BothCompleteLaterWins ==
  \A p, q \in Pubs :
    /\ Concurrent(p, q) /\ Finished(p) /\ Finished(q)
    /\ ~pub[p].injected /\ ~pub[q].injected
    => /\ Returned(p) /\ Returned(q)
       /\ p \in pub[q].writes_seen => files[FilePath(q)] = pub[q].content

\* C9, amended: the store refuses a write that does not follow the writer's
\* own read. Two publishes of one path both return only when one of them read
\* after the other had returned; a publish the store failed for no reason of
\* its own raised the store's refusal (409 on update, 422 on create); and the
\* content left at the path is that of the publish that returned last.
C9_StaleWriteRefused ==
  /\ \A p, q \in Pubs :
       /\ p # q /\ HasRead(p) /\ HasRead(q) /\ FilePath(p) = FilePath(q)
       /\ Returned(p) /\ Returned(q)
       => p \in pub[q].after \/ q \in pub[p].after
  /\ \A p \in Pubs :
       IsPublish(p) /\ HasRaised(p) /\ ~pub[p].injected
         => pub[p].exc \in {409, 422}
  /\ \A p \in Pubs : IsPublish(p) /\ Returned(p) =>
       \E q \in ReturnedPubs :
         /\ FilePath(q) = FilePath(p)
         /\ files[FilePath(p)] = pub[q].content
         /\ \A r \in ReturnedPubs \ {q} :
              FilePath(r) = FilePath(p) => r \in pub[q].after

\* Two concurrent publishes found the same file: the first update returned,
\* the second was refused with 409 and the first one's content is left.
C9_Witness ==
  \E p, q \in Pubs :
    /\ Concurrent(p, q) /\ ~pub[p].injected /\ ~pub[q].injected
    /\ Returned(p) /\ HasRaised(q) /\ pub[q].exc = 409
    /\ p \in pub[q].writes_seen
    /\ files[FilePath(p)] = pub[p].content

\* The probes of ancestors in p's log, as indices.
AncestorProbes(p) ==
  {k \in 1..Len(Calls(p)) :
     Calls(p)[k][1] = "get_contents" /\ Calls(p)[k][2] \in Ancestors(p)}

\* C10: a publish probes the ancestors of its folder path one at a time from
\* the root to the leaf; it creates the placeholder of an ancestor only right
\* after the probe of that ancestor answered 404, hence at most once, and
\* writes nothing in an ancestor the probe found; it creates the target only
\* after every ancestor is known to exist. When no ancestor existed and the
\* publish returns, its log is: the read, then for each ancestor from the root
\* down its probe and the creation of its placeholder, then the creation of
\* the target.
C10_AncestorsRootToLeaf ==
  \A p \in Pubs : IsPublish(p) =>
    /\ \A j, k \in AncestorProbes(p) :
         j < k => Len(Calls(p)[j][2]) < Len(Calls(p)[k][2])
    /\ \A k \in 1..Len(Calls(p)) :
         LET c == Calls(p)[k] IN
         /\ c[1] = "create_file" /\ IsPlaceholder(c[2]) =>
              /\ k > 1
              /\ Calls(p)[k - 1] =
                   Call("get_contents", SubSeq(c[2], 1, Len(c[2]) - 1), 404)
         /\ c[1] = "get_contents" /\ c[2] \in Ancestors(p) /\ c[3] = 200 =>
              \A j \in 1..Len(Calls(p)) :
                Calls(p)[j][2] # Append(c[2], GITKEEP)
         /\ c[1] = "create_file" /\ c[2] = FilePath(p) =>
              \A d \in Ancestors(p) : EnsuredBefore(p, d, k)
    /\ /\ Returned(p)
       /\ \A k \in AncestorProbes(p) : Calls(p)[k][3] = 404
       /\ ReadStatus(p) = 404
       => /\ Len(Calls(p)) = 2 * Len(pub[p].folder_path) + 2
          /\ \A n \in 1..Len(pub[p].folder_path) :
               LET d == SubSeq(pub[p].folder_path, 1, n) IN
               /\ Calls(p)[2 * n] = Call("get_contents", d, 404)
               /\ Calls(p)[2 * n + 1] =
                    Call("create_file", Append(d, GITKEEP), 201)
          /\ LastCall(p) = Call("create_file", FilePath(p), 201)

\* A publish into an empty repository returned having created every ancestor.
C10_Witness ==
  \E p \in Pubs :
    /\ IsPublish(p) /\ Returned(p)
    /\ Len(pub[p].folder_path) >= 2
    /\ Len(Calls(p)) = 2 * Len(pub[p].folder_path) + 2
    /\ \A k \in AncestorProbes(p) : Calls(p)[k][3] = 404

\* C35: in a publish, the create of the target, and the creation of the
\* ancestors' placeholders, is attempted only when the read of the target
\* answered not-found; a failure of the update, whatever its kind, never
\* leads to a create.
C35_CreateOnlyAfterNotFoundRead ==
  \A p \in Pubs : IsPublish(p) =>
    \A k \in 1..Len(Calls(p)) :
      Calls(p)[k][1] = "create_file" =>
        /\ Calls(p)[1] = Call("get_contents", FilePath(p), 404)
        /\ \A j \in 1..(k - 1) : Calls(p)[j][1] # "update_file"

====
